---- MODULE Spec2Model ----
(***************************************************************************)
(* Model of scripts/run_component_wast.py: the WAST form scanner           *)
(* (iter_forms) and the per-file command interpreter (run_file).           *)
(*                                                                         *)
(* Text is a sequence of one-character strings.  Offsets are 0-based as in *)
(* the source: At(t, i) is the source's text[i].                           *)
(***************************************************************************)
EXTENDS Integers, Sequences, FiniteSets, TLC

\* ------------------------------------------------------------------ bounds

\* Longest input text the scanner specification enumerates.
MaxLen == 5

\* Characters of the scanner inputs: both parentheses, the comment
\* character, the quote, the backslash, the newline and one ordinary
\* character.
Alphabet == {"(", ")", ";", "\"", "\\", "\n", "a"}

Texts == UNION {[1..n -> Alphabet] : n \in 0..MaxLen}

\* ------------------------------------------------------------ text helpers

At(t, k) == t[k + 1]

\* text[a:b] of the source (0-based, b exclusive).
Slice(t, a, b) == SubSeq(t, a + 1, b)

NoStart == -1

\* A line comment that sends the scan back to its `;;`.
skip_line_comment_back(t, k) == k - 2

\* A line comment that is not skipped: the scan goes on right after `;;`.
skip_line_comment_not(t, k) == k

\* skip_line_comment(text, i): first offset >= i holding a newline, or len.
RECURSIVE skip_line_comment(_, _)
skip_line_comment(t, k) ==
  IF k < Len(t) /\ At(t, k) # "\n" THEN skip_line_comment(t, k + 1) ELSE k

\* ---------------------------------------------------------------- scanner

VARIABLES
  scan,     \* locals of the iter_forms generator, plus the forms yielded
  rf,       \* locals of run_file, plus the log of what each form did
  menu,     \* the inputs of the run: forms a file may hold, tool answers
  lit,      \* string literals being decoded: parse_string, parse_module_binary
  suite     \* locals of main: the files of the suite, the totals, the exit code

\* The substring a ')' that closes a top-level form yields: text[start : i + 1].
YieldSliceShort(t, s, k) == Slice(t, s, k)
YieldSlice(t, s, k) == Slice(t, s, k + 1)

\* depth after a structural ')': the source decrements unconditionally.
DepthAfterClose(d) == d - 1

\* start after a structural '(': set only when depth == 0.
StartAfterOpen(d, s, k) == IF d = 0 THEN k ELSE s

iter_forms_init(t) ==
  [text |-> t, i |-> 0, depth |-> 0, start |-> NoStart, in_string |-> FALSE,
   escape |-> FALSE, block_depth |-> 0, out |-> <<>>, pc |-> "loop", steps |-> 0]

\* One iteration of the while loop of iter_forms.
iter_forms_step(s) ==
  LET t == s.text
      k == s.i
      c == At(t, k)
      nxt(ch) == k + 1 < Len(t) /\ At(t, k + 1) = ch
  IN
  IF s.block_depth > 0 THEN
    IF c = "(" /\ nxt(";") THEN
      [s EXCEPT !.block_depth = @ + 1, !.i = k + 2]
    ELSE IF c = ";" /\ nxt(")") THEN
      [s EXCEPT !.block_depth = @ - 1, !.i = k + 2]
    ELSE [s EXCEPT !.i = k + 1]
  ELSE IF s.in_string THEN
    IF s.escape THEN [s EXCEPT !.escape = FALSE, !.i = k + 1]
    ELSE IF c = "\\" THEN [s EXCEPT !.escape = TRUE, !.i = k + 1]
    ELSE IF c = "\"" THEN [s EXCEPT !.in_string = FALSE, !.i = k + 1]
    ELSE [s EXCEPT !.i = k + 1]
  ELSE IF c = ";" /\ nxt(";") THEN
    [s EXCEPT !.i = skip_line_comment(t, k + 2)]
  ELSE IF c = "(" /\ nxt(";") THEN
    [s EXCEPT !.block_depth = 1, !.i = k + 2]
  ELSE IF c = "\"" THEN
    [s EXCEPT !.in_string = TRUE, !.i = k + 1]
  ELSE IF c = "(" THEN
    [s EXCEPT !.start = StartAfterOpen(s.depth, s.start, k),
              !.depth = @ + 1, !.i = k + 1]
  ELSE IF c = ")" THEN
    LET d == DepthAfterClose(s.depth) IN
    IF d = 0 /\ s.start # NoStart THEN
      [s EXCEPT !.depth = d,
                !.out = Append(@, [start |-> s.start,
                                   form |-> YieldSlice(t, s.start, k)]),
                !.start = NoStart, !.i = k + 1]
    ELSE [s EXCEPT !.depth = d, !.i = k + 1]
  ELSE [s EXCEPT !.i = k + 1]

\* ------------------------------------------------- scanner: reference view
\* The lexical classes of spec section 4.1, computed position by position:
\* RefMask(t)[p] is "(" or ")" when the character at p is a parenthesis
\* outside every string literal and comment, and "-" otherwise.

RECURSIVE RefTop(_, _), RefStr(_, _, _), RefBlk(_, _, _), RefLine(_, _)
RefTop(t, k) ==
  IF k >= Len(t) THEN <<>>
  ELSE LET c == At(t, k)
           two(ch) == k + 1 < Len(t) /\ At(t, k + 1) = ch
       IN IF c = ";" /\ two(";") THEN <<"-", "-">> \o RefLine(t, k + 2)
          ELSE IF c = "(" /\ two(";") THEN <<"-", "-">> \o RefBlk(t, k + 2, 1)
          ELSE IF c = "\"" THEN <<"-">> \o RefStr(t, k + 1, FALSE)
          ELSE IF c \in {"(", ")"} THEN <<c>> \o RefTop(t, k + 1)
          ELSE <<"-">> \o RefTop(t, k + 1)
RefLine(t, k) ==
  IF k >= Len(t) THEN <<>>
  ELSE IF At(t, k) = "\n" THEN RefTop(t, k)
  ELSE <<"-">> \o RefLine(t, k + 1)
RefStr(t, k, esc) ==
  IF k >= Len(t) THEN <<>>
  ELSE IF esc THEN <<"-">> \o RefStr(t, k + 1, FALSE)
  ELSE IF At(t, k) = "\\" THEN <<"-">> \o RefStr(t, k + 1, TRUE)
  ELSE IF At(t, k) = "\"" THEN <<"-">> \o RefTop(t, k + 1)
  ELSE <<"-">> \o RefStr(t, k + 1, FALSE)
RefBlk(t, k, bd) ==
  IF k >= Len(t) THEN <<>>
  ELSE LET two(a, b) == At(t, k) = a /\ k + 1 < Len(t) /\ At(t, k + 1) = b
       IN IF two("(", ";") THEN <<"-", "-">> \o RefBlk(t, k + 2, bd + 1)
          ELSE IF two(";", ")") THEN
            <<"-", "-">> \o (IF bd = 1 THEN RefTop(t, k + 2)
                             ELSE RefBlk(t, k + 2, bd - 1))
          ELSE <<"-">> \o RefBlk(t, k + 1, bd)

RefMask(t) == RefTop(t, 0)

\* Opening minus closing structural parentheses among the first k positions.
RefDepth(m, k) ==
  Cardinality({p \in 1..k : m[p] = "("}) - Cardinality({p \in 1..k : m[p] = ")"})

Balanced(m) ==
  /\ \A k \in 1..Len(m) : RefDepth(m, k) >= 0
  /\ RefDepth(m, Len(m)) = 0

\* The ')' matching the structural '(' at position p (0 when there is none).
RefMatch(m, p) ==
  LET qs == {q \in (p + 1)..Len(m) : RefDepth(m, q) = RefDepth(m, p - 1)}
  IN IF qs = {} THEN 0 ELSE CHOOSE q \in qs : \A r \in qs : q <= r

\* Nesting depth with an unmatched ')' ignored: the number of structural
\* '(' among the first k positions that are still open after position k.
RECURSIVE OpenDepth(_, _)
OpenDepth(m, k) ==
  IF k = 0 THEN 0
  ELSE LET d == OpenDepth(m, k - 1)
       IN IF m[k] = "(" THEN d + 1
          ELSE IF m[k] = ")" /\ d > 0 THEN d - 1
          ELSE d

\* Positions of the '(' that open a top-level parenthesized expression.
RefStarts(m) == {p \in 1..Len(m) : m[p] = "(" /\ RefDepth(m, p - 1) = 0}

RECURSIVE SortedSeq(_)
SortedSeq(S) ==
  IF S = {} THEN <<>>
  ELSE LET lo == CHOOSE x \in S : \A y \in S : x <= y
       IN <<lo>> \o SortedSeq(S \ {lo})

\* The top-level forms of a balanced text, in source order.
RefForms(t) ==
  LET m == RefMask(t)
      ps == SortedSeq(RefStarts(m))
  IN [j \in 1..Len(ps) |->
        [start |-> ps[j] - 1, form |-> SubSeq(t, ps[j], RefMatch(m, ps[j]))]]

\* ------------------------------------------------------- string literals
\* parse_string works on the characters of the text.  A character of a
\* decoded Python str is its code point; a decoded string is a sequence of
\* code points.

LowerHex == <<"0", "1", "2", "3", "4", "5", "6", "7", "8", "9",
              "a", "b", "c", "d", "e", "f">>
UpperHex == <<"0", "1", "2", "3", "4", "5", "6", "7", "8", "9",
              "A", "B", "C", "D", "E", "F">>

\* "0123456789abcdefABCDEF"
HexChars == {LowerHex[k] : k \in 1..16} \cup {UpperHex[k] : k \in 1..16}

\* Characters of the string-literal inputs: the quote, the backslash, the
\* hex digits, the letters of the named escapes, the braces of \u{...} and
\* one ordinary character.
LitAlphabet == HexChars \cup {"\"", "\\", "n", "t", "r", "u", "{", "}", "z"}

\* The value int(c, 16) gives one hex digit.
HexDigitValue(c) == CHOOSE v \in 0..15 : LowerHex[v + 1] = c \/ UpperHex[v + 1] = c

\* ord(c) for the characters of LitAlphabet and of the form texts.
ord(c) ==
  IF c \in {LowerHex[k] : k \in 1..10} THEN 48 + HexDigitValue(c)
  ELSE IF c \in {LowerHex[k] : k \in 11..16} THEN 87 + HexDigitValue(c)
  ELSE IF c \in {UpperHex[k] : k \in 11..16} THEN 55 + HexDigitValue(c)
  ELSE CASE c = "\"" -> 34 [] c = "\\" -> 92 [] c = "n" -> 110 [] c = "t" -> 116
         [] c = "r" -> 114 [] c = "u" -> 117 [] c = "{" -> 123 [] c = "}" -> 125
         [] c = "z" -> 122 [] c = "(" -> 40 [] c = ")" -> 41 [] c = ";" -> 59
         [] c = "\n" -> 10 [] c = "m" -> 109 [] c = "o" -> 111 [] c = "p" -> 112

\* int(digits, 16).  err: ValueError (no digit, or a character that is not a
\* hex digit).  big: the value does not fit a C int (it is 2^31 or more);
\* val is exact otherwise.
RECURSIVE int16_loop(_, _, _)
int16_loop(ds, k, acc) ==
  IF k > Len(ds) THEN acc
  ELSE IF ds[k] \notin HexChars THEN [err |-> TRUE, big |-> FALSE, val |-> 0]
  ELSE IF acc.big \/ acc.val >= 134217728
  THEN int16_loop(ds, k + 1, [err |-> FALSE, big |-> TRUE, val |-> 0])
  ELSE int16_loop(ds, k + 1,
         [err |-> FALSE, big |-> FALSE, val |-> 16 * acc.val + HexDigitValue(ds[k])])
int16(ds) ==
  IF Len(ds) = 0 THEN [err |-> TRUE, big |-> FALSE, val |-> 0]
  ELSE int16_loop(ds, 1, [err |-> FALSE, big |-> FALSE, val |-> 0])

\* chr(n): the character, ValueError above 0x10FFFF, OverflowError when n
\* does not fit a C int.
chr(n) ==
  IF n.big THEN [exc |-> "OverflowError", c |-> 0]
  ELSE IF n.val > 1114111 THEN [exc |-> "ValueError", c |-> 0]
  ELSE [exc |-> "", c |-> n.val]

\* The `while j < len(text) and text[j] != "}"` loop of the \u{...} escape.
RECURSIVE find_brace(_, _)
find_brace(t, j) == IF j < Len(t) /\ At(t, j) # "}" THEN find_brace(t, j + 1) ELSE j

\* parse_string(text, i): (StringToken or None, offset).  none is TRUE for
\* None; exc names the exception that leaves the function, "" when it
\* returns.
NoToken(i) == [none |-> TRUE, value |-> <<>>, i |-> i, exc |-> ""]
RECURSIVE parse_string_loop(_, _, _), unicode_escape(_, _, _, _), unicode_char(_, _, _, _, _)
\* The `\u{` escape at offset i, j the offset the brace scan stopped at.
unicode_escape(t, i, out, j) ==
  IF j < Len(t) THEN unicode_char(t, i, out, j, int16(Slice(t, i + 3, j)))
  ELSE parse_string_loop(t, i + 2, Append(out, ord("u")))
\* out.append(chr(int(hex_digits, 16))) under `except ValueError`, n the
\* result of int.
unicode_char(t, i, out, j, n) ==
  IF n.err \/ chr(n).exc = "ValueError" THEN parse_string_loop(t, i + 2, Append(out, ord("u")))
  ELSE IF chr(n).exc # ""
  THEN [none |-> TRUE, value |-> <<>>, i |-> i + 1, exc |-> chr(n).exc]
  ELSE parse_string_loop(t, j + 1, Append(out, chr(n).c))
parse_string_loop(t, i, out) ==
  IF i >= Len(t) THEN NoToken(i)
  ELSE LET c == At(t, i) IN
    IF c = "\"" THEN [none |-> FALSE, value |-> out, i |-> i + 1, exc |-> ""]
    ELSE IF c = "\\" THEN
      IF i + 1 >= Len(t) THEN NoToken(i + 1)
      ELSE LET esc == At(t, i + 1) IN
        IF esc \in HexChars /\ i + 2 < Len(t) /\ At(t, i + 2) \in HexChars
        THEN parse_string_loop(t, i + 3, Append(out, chr(int16(Slice(t, i + 1, i + 3))).c))
        ELSE IF esc = "n" THEN parse_string_loop(t, i + 2, Append(out, 10))
        ELSE IF esc = "t" THEN parse_string_loop(t, i + 2, Append(out, 9))
        ELSE IF esc = "r" THEN parse_string_loop(t, i + 2, Append(out, 13))
        ELSE IF esc = "\"" THEN parse_string_loop(t, i + 2, Append(out, 34))
        ELSE IF esc = "\\" THEN parse_string_loop(t, i + 2, Append(out, 92))
        ELSE IF esc = "u" /\ i + 2 < Len(t) /\ At(t, i + 2) = "{"
        THEN unicode_escape(t, i, out, find_brace(t, i + 3))
        ELSE parse_string_loop(t, i + 2, Append(out, ord(esc)))
    ELSE parse_string_loop(t, i + 1, Append(out, ord(c)))
parse_string(t, i) ==
  IF i >= Len(t) \/ At(t, i) # "\"" THEN NoToken(i)
  ELSE parse_string_loop(t, i + 1, <<>>)

\* decode_wat_bytes(s): the bytes of a decoded literal; ValueError (ok is
\* FALSE) on a character above 0xFF.
RECURSIVE decode_wat_bytes_utf8(_)
decode_wat_bytes_utf8(s) ==
  IF Len(s) = 0 THEN [ok |-> TRUE, bytes |-> <<>>]
  ELSE LET rest == decode_wat_bytes_utf8(Tail(s)) IN
    [ok |-> TRUE,
     bytes |-> (IF s[1] < 128 THEN <<s[1]>>
                ELSE <<192 + (s[1] \div 64), 128 + (s[1] % 64)>>) \o rest.bytes]
RECURSIVE decode_wat_bytes_loop(_, _, _)
decode_wat_bytes_loop(s, k, out) ==
  IF k > Len(s) THEN [ok |-> TRUE, bytes |-> out]
  ELSE LET code == s[k] IN
    IF code > 255 THEN [ok |-> FALSE, bytes |-> <<>>]
    ELSE decode_wat_bytes_loop(s, k + 1, Append(out, code))
decode_wat_bytes(s) == decode_wat_bytes_loop(s, 1, <<>>)

\* ------------------------------------------------------- forms as tokens
\* run_file works on the forms iter_forms yields.  Below the scanner a form
\* is a sequence of tokens: "(" and ")", atoms, and string literals (v is
\* the decoded value).  Offsets into a form count tokens.  Parsed nodes use
\* the same records: an atom, a StringToken, or a list of nodes.  A string
\* literal whose escapes matter is a token that carries its source
\* characters (src), quotes included; its StringToken carries the decoded
\* code points (cps).

LP == [k |-> "lp", v |-> "("]
RP == [k |-> "rp", v |-> ")"]
Atom(a) == [k |-> "atom", v |-> a]
Str(a) == [k |-> "str", v |-> a]
Lit(src) == [k |-> "str", v |-> "<literal>", src |-> src]
StringToken(cps) == [k |-> "str", v |-> "<decoded>", cps |-> cps]
\* An exception on its way out of the parser.
Raised(exc) == [k |-> "raise", v |-> exc]
List(items) == [k |-> "list", v |-> items]
None == [k |-> "none", v |-> ""]

\* Python's None where the other values are strings.
PyNone == "<None>"

\* The empty text: what `not component_form` and `normalized is None` test.
NoForm == <<>>

\* Atoms that start with the '$' sigil.
SigilAtoms == {"$a", "$b", "$c", "$d", "$q", "$z"}
StartsWithSigil(a) == a \in SigilAtoms

isinstance_str(n) == n.k = "atom"
isinstance_StringToken(n) == n.k = "str"
isinstance_list(n) == n.k = "list"

\* read_symbol(text, i): the atom at offset i, with the offset after it.
\* A string literal met here is read as raw text, quotes included, so it
\* never equals a keyword and never starts with '$'.
read_symbol(f, k) ==
  IF k >= Len(f) THEN [sym |-> None, i |-> k]
  ELSE IF At(f, k).k \in {"lp", "rp"} THEN [sym |-> None, i |-> k]
  ELSE IF At(f, k).k = "str" THEN [sym |-> [k |-> "raw", v |-> At(f, k).v], i |-> k + 1]
  ELSE [sym |-> At(f, k), i |-> k + 1]

\* first_symbol(form): read_symbol(form, 1).
first_symbol(f) == read_symbol(f, 1).sym

\* parse_atom / parse_string / parse_sexpr: recursive descent over one form.
parse_atom(t, k) ==
  IF k < Len(t) /\ At(t, k).k \notin {"lp", "rp"}
  THEN [node |-> At(t, k), i |-> k + 1]
  ELSE [node |-> None, i |-> k]

\* `return parse_string(text, i)`: r is what parse_string gave for the
\* literal at token k.
string_node(r, k) ==
  IF r.exc # "" THEN [node |-> Raised(r.exc), i |-> k]
  ELSE IF r.none THEN [node |-> None, i |-> k + 1]
  ELSE [node |-> StringToken(r.value), i |-> k + 1]

RECURSIVE parse_sexpr(_, _), parse_items(_, _, _)
parse_sexpr(t, k) ==
  IF k >= Len(t) THEN [node |-> None, i |-> k]
  ELSE IF At(t, k).k = "lp" THEN parse_items(t, k + 1, <<>>)
  ELSE IF At(t, k).k = "str" THEN
    IF "src" \in DOMAIN At(t, k) THEN string_node(parse_string(At(t, k).src, 0), k)
    ELSE [node |-> At(t, k), i |-> k + 1]
  ELSE parse_atom(t, k)
\* the `while i < len(text)` loop of the '(' case
parse_items(t, k, items) ==
  IF k < Len(t) THEN
    IF At(t, k).k = "rp" THEN [node |-> List(items), i |-> k + 1]
    ELSE LET r == parse_sexpr(t, k)
         IN IF r.node.k = "raise" THEN r
            ELSE IF r.node = None THEN [node |-> List(items), i |-> r.i]
            ELSE parse_items(t, r.i, Append(items, r.node))
  ELSE [node |-> List(items), i |-> k]

parse_form(f) == parse_sexpr(f, 0).node

\* extract_form(text, start): the balanced form that starts at `start`.
RECURSIVE extract_form_loop(_, _, _, _)
extract_form_loop(t, st, k, d) ==
  IF k >= Len(t) THEN NoForm
  ELSE IF At(t, k).k = "lp" THEN extract_form_loop(t, st, k + 1, d + 1)
  ELSE IF At(t, k).k = "rp" THEN
    IF d - 1 = 0 THEN Slice(t, st, k + 1)
    ELSE extract_form_loop(t, st, k + 1, d - 1)
  ELSE extract_form_loop(t, st, k + 1, d)
extract_form(t, st) == extract_form_loop(t, st, st, 0)

\* find_component_form(form): the first '(' whose head atom is `component`.
RECURSIVE find_component_form_loop(_, _)
find_component_form_loop(f, k) ==
  IF k >= Len(f) THEN NoForm
  ELSE IF At(f, k).k = "lp" /\ read_symbol(f, k + 1).sym = Atom("component")
  THEN extract_form(f, k)
  ELSE find_component_form_loop(f, k + 1)
find_component_form(f) == find_component_form_loop(f, 0)

\* normalize_component_form(form): (normalized text or None, kind).
normalize_component_form(f) ==
  LET r1 == read_symbol(f, 1)
      r2 == read_symbol(f, r1.i)
      r3 == read_symbol(f, r2.i)
  IN IF r1.sym # Atom("component") THEN [normalized |-> NoForm, kind |-> "unknown"]
     ELSE IF r2.sym = Atom("definition") THEN
       IF r3.sym.k = "atom" /\ StartsWithSigil(r3.sym.v)
       THEN [normalized |-> <<LP, Atom("component"), r3.sym>> \o Slice(f, r3.i, Len(f)),
             kind |-> "definition"]
       ELSE [normalized |-> <<LP, Atom("component")>> \o Slice(f, r2.i, Len(f)),
             kind |-> "definition"]
     ELSE IF r2.sym = Atom("instance") THEN [normalized |-> NoForm, kind |-> "instance"]
     ELSE [normalized |-> f, kind |-> "component"]

\* extract_expected_message(node, idx = 2)
extract_expected_message_none(node) == PyNone
extract_expected_message(node) ==
  IF isinstance_list(node) /\ Len(node.v) > 2 /\ isinstance_StringToken(node.v[3])
  THEN node.v[3].v ELSE PyNone

\* parse_component_name(node)
parse_component_name(node) ==
  IF isinstance_list(node) /\ Len(node.v) > 1
     /\ isinstance_str(node.v[2]) /\ StartsWithSigil(node.v[2].v)
  THEN node.v[2].v ELSE PyNone

\* parse_component_definition_name(node)
parse_component_definition_name(node) ==
  IF isinstance_list(node) /\ Len(node.v) > 2 /\ node.v[2] = Atom("definition")
     /\ isinstance_str(node.v[3]) /\ StartsWithSigil(node.v[3].v)
  THEN node.v[3].v ELSE PyNone

\* parse_component_instance(node): (inst, comp) or None.
NoInstance == [inst |-> PyNone, comp |-> PyNone]
parse_component_instance(node) ==
  IF isinstance_list(node) /\ Len(node.v) > 3
     /\ node.v[1] = Atom("component") /\ node.v[2] = Atom("instance")
     /\ isinstance_str(node.v[3]) /\ isinstance_str(node.v[4])
  THEN [inst |-> node.v[3].v, comp |-> node.v[4].v]
  ELSE NoInstance

\* ------------------------------------------- constants and invoke decoding

\* The value types with f32 among them.
SUPPORTED_VALUE_TYPES_and_f32 ==
  {"bool", "u8", "s8", "u16", "s16", "u32", "s32", "u64", "s64", "char", "str", "string",
   "f32"}

SUPPORTED_VALUE_TYPES ==
  {"bool", "u8", "s8", "u16", "s16", "u32", "s32", "u64", "s64", "char", "str", "string"}

\* head.endswith(".const") and head[: -len(".const")], on the heads used.
DotConstHeads ==
  [h \in {"bool.const", "u32.const", "s64.const", "char.const", "str.const",
          "string.const", "list.const", "f32.const"} |->
     CASE h = "bool.const" -> "bool" [] h = "u32.const" -> "u32"
       [] h = "s64.const" -> "s64" [] h = "char.const" -> "char"
       [] h = "str.const" -> "str" [] h = "string.const" -> "string"
       [] h = "list.const" -> "list" [] h = "f32.const" -> "f32"]
endswith_const(a) == a \in DOMAIN DotConstHeads

NoConst == [type |-> PyNone]

RECURSIVE parse_const(_), parse_const_items(_, _, _)
parse_const(node) ==
  IF ~isinstance_list(node) \/ Len(node.v) = 0 THEN NoConst
  ELSE LET head == node.v[1] IN
    IF ~isinstance_str(head) \/ ~endswith_const(head.v) THEN NoConst
    ELSE IF head.v = "list.const" THEN parse_const_items(node.v, 2, <<>>)
    ELSE LET type_name == DotConstHeads[head.v] IN
      IF type_name \notin SUPPORTED_VALUE_TYPES THEN NoConst
      ELSE IF type_name \in {"str", "string", "char"} THEN
        IF Len(node.v) < 2 \/ ~isinstance_StringToken(node.v[2]) THEN NoConst
        ELSE [type |-> type_name, value |-> node.v[2].v]
      ELSE IF Len(node.v) < 2 \/ ~isinstance_str(node.v[2]) THEN NoConst
      ELSE [type |-> type_name, value |-> node.v[2].v]
\* `for item in node[1:]` of the list.const case
parse_const_items(v, k, items) ==
  IF k > Len(v) THEN [type |-> "list", items |-> items]
  ELSE LET val == parse_const(v[k])
       IN IF val = NoConst THEN NoConst
          ELSE parse_const_items(v, k + 1, Append(items, val))

\* `for x in seq: val = parse_const(x); if val is None: ...; out.append(val)`
\* as used by parse_invoke and the assert_return branch: ok is FALSE when
\* some element does not decode.
RECURSIVE parse_const_all(_, _, _)
parse_const_all(v, k, out) ==
  IF k > Len(v) THEN [ok |-> TRUE, vals |-> out]
  ELSE LET val == parse_const(v[k])
       IN IF val = NoConst THEN [ok |-> FALSE, vals |-> out]
          ELSE parse_const_all(v, k + 1, Append(out, val))

NoAction == [instance |-> PyNone, field |-> PyNone, args |-> <<>>, none |-> TRUE]

\* parse_invoke(node)
parse_invoke(node) ==
  IF ~isinstance_list(node) \/ Len(node.v) = 0 THEN NoAction
  ELSE IF node.v[1] # Atom("invoke") THEN NoAction
  ELSE
    LET has_inst == 1 < Len(node.v) /\ isinstance_str(node.v[2])
                      /\ StartsWithSigil(node.v[2].v)
        instance == IF has_inst THEN node.v[2].v ELSE PyNone
        idx == IF has_inst THEN 2 ELSE 1
    IN IF idx >= Len(node.v) \/ ~isinstance_StringToken(node.v[idx + 1]) THEN NoAction
       ELSE LET args == parse_const_all(node.v, idx + 2, <<>>)
            IN IF ~args.ok THEN NoAction
               ELSE [instance |-> instance, field |-> node.v[idx + 1].v,
                     args |-> args.vals, none |-> FALSE]

\* ------------------------------------------------------- external tools
\* The compiler, the validator, the module runner and the batch executor
\* are external processes: what they return is an input of the model.

\* compile_component: (path, None) on exit code 0, else (None, diagnostic).
ComponentPath(idx) == "component_" \o ToString(idx) \o ".wasm"
compile_component_ignores_rc(proc, idx) ==
  [bin |-> ComponentPath(idx), err |-> PyNone]
compile_component(proc, idx) ==
  IF proc.rc # 0
  THEN [bin |-> PyNone, err |-> IF proc.diag # "" THEN proc.diag ELSE "wasm-tools parse failed"]
  ELSE [bin |-> ComponentPath(idx), err |-> PyNone]

\* validate_component: classification of the validator's output by markers.
\* `has` is the set of marker substrings the output contains.
validate_component_by_exit(out) ==
  [ok |-> out.rc = 0,
   msg |-> IF out.text # "" THEN out.text ELSE "unknown validation result"]
validate_component(out) ==
  IF "validate component error" \in out.has \/ "parse component error" \in out.has
  THEN [ok |-> FALSE, msg |-> out.text]
  ELSE IF "component validated ok" \in out.has
  THEN [ok |-> TRUE, msg |-> out.text]
  ELSE [ok |-> FALSE, msg |-> IF out.text # "" THEN out.text ELSE "unknown validation result"]

UNSUPPORTED_ERROR_SUBSTRINGS ==
  {"unsupported component type opcode", "unsupported canon opcode",
   "unsupported component preamble", "unsupported string encoding",
   "unsupportedstringencoding", "unsupportedcomponent"}

\* is_unsupported_error(msg), on the output the message was taken from:
\* `lower` is the set of marker substrings msg.lower() contains.
is_unsupported_error_never(out) == FALSE
is_unsupported_error(out) == out.lower \cap UNSUPPORTED_ERROR_SUBSTRINGS # {}

\* run_component_script: fold over the output lines of `component-test`.
\* A RESULT line is its whitespace-separated parts key=value; a part with
\* another key is ignored and a missing part keeps the earlier value.
RECURSIVE result_parts(_, _, _)
result_parts(parts, k, acc) ==
  IF k > Len(parts) THEN acc
  ELSE LET part == parts[k] IN
    result_parts(parts, k + 1,
      IF part.key = "passed" THEN [acc EXCEPT !.passed = part.val]
      ELSE IF part.key = "failed" THEN [acc EXCEPT !.failed = part.val]
      ELSE IF part.key = "skipped" THEN [acc EXCEPT !.skipped = part.val]
      ELSE acc)

RECURSIVE run_component_script_lines(_, _, _)
run_component_script_lines(lines, k, acc) ==
  IF k > Len(lines) THEN acc
  ELSE LET ln == lines[k] IN
    run_component_script_lines(lines, k + 1,
      IF ln.kind = "RESULT" THEN
        result_parts(ln.parts, 1, [acc EXCEPT !.saw_result = TRUE])
      ELSE IF ln.kind = "FAIL" THEN [acc EXCEPT !.failures = Append(@, ln.detail)]
      ELSE acc)
run_component_script_blind(out) ==
  [passed |-> 0, failed |-> 0, skipped |-> 0, failures |-> <<>>,
   raw |-> out.raw, saw_result |-> TRUE]
run_component_script(out) ==
  run_component_script_lines(out.lines, 1,
    [passed |-> 0, failed |-> 0, skipped |-> 0, failures |-> <<>>,
     raw |-> out.raw, saw_result |-> FALSE])

\* ----------------------------------------------------------------- run_file

\* Most forms one file holds in the run_file specifications.
MaxForms == 3

\* fail() keeps at most this many failure descriptions.
FailureCap == 50

\* f"$anon_def_{anon_def_count}"
AnonNameFromZero(n) == "$anon_def_" \o ToString(n - 1)
AnonName(n) == "$anon_def_" \o ToString(n)

\* `cmd or ""` for the failure prefix.
CmdText(sym) ==
  IF sym.k = "atom" THEN sym.v
  ELSE IF sym.k = "raw" THEN "\"" \o sym.v \o "\""
  ELSE ""

run_file_init(keep) ==
  [pc |-> "forms", keep_tmp_on_failure |-> keep,
   passed |-> 0, failed |-> 0, failures |-> <<>>,
   defined_components |-> {}, anon_def_count |-> 0,
   current_form_idx |-> 0, current_cmd |-> "",
   commands |-> <<>>, comp_idx |-> 0, tmp_exists |-> TRUE,
   \* the exception on its way out of run_file, "" when there is none
   exc |-> "",
   \* script["commands"] as handed to run_component_script
   script |-> <<>>,
   result |-> [passed |-> 0, failed |-> 0, skipped |-> 0, failures |-> <<>>],
   \* what happened, for the properties: the external calls made (in order)
   \* and, per form: the form, the registry before and after it, whether its
   \* compile and its validation succeeded, the validator's output, the
   \* module runner's exit code (-1: not run), and the
   \* length of `commands`, the number of external calls, the counts and the
   \* length of `failures` after it
   calls |-> <<>>, log |-> <<>>,
   \* the batch executor's output, once it ran
   batch_out |-> [lines |-> <<>>, raw |-> ""]]

\* fail(reason)
FailUncapped(s, reason) ==
  [s EXCEPT !.failed = @ + 1,
            !.failures = Append(@, "#" \o ToString(s.current_form_idx) \o " "
                                     \o s.current_cmd \o ": " \o reason)]
FailNoCount(s, reason) ==
  [s EXCEPT !.failures =
      IF Len(@) < FailureCap
      THEN Append(@, "#" \o ToString(s.current_form_idx) \o " " \o s.current_cmd
                         \o ": " \o reason)
      ELSE @]
Fail(s, reason) ==
  [s EXCEPT !.failed = @ + 1,
            !.failures =
      IF Len(@) < FailureCap
      THEN Append(@, "#" \o ToString(s.current_form_idx) \o " " \o s.current_cmd
                         \o ": " \o reason)
      ELSE @]

\* commands.append(cmd)
AddCommandFront(s, cmd) == [s EXCEPT !.commands = <<cmd>> \o @]
AddCommand(s, cmd) == [s EXCEPT !.commands = Append(@, cmd)]

\* An external process is started and waited for (subprocess.run): the call
\* has returned when the next statement runs.
CallNoWait(s, tool) ==
  [s EXCEPT !.calls = Append(@, [tool |-> tool, form |-> s.current_form_idx,
                                 returned |-> FALSE])]
Call(s, tool) ==
  [s EXCEPT !.calls = Append(@, [tool |-> tool, form |-> s.current_form_idx,
                                 returned |-> TRUE])]

\* The compile call without the `comp_idx += 1` after it.
CompiledSameIndex(s) == Call(s, "compile")

\* comp_bin, err = compile_component(normalized, tmp_path, comp_idx); comp_idx += 1
Compiled(s) == [Call(s, "compile") EXCEPT !.comp_idx = @ + 1]

\* defined_components after the instance branch accepted (inst_name, comp_name):
\* the source appends the command and leaves the registry alone.
RegistryAfterInstanceAdds(reg, inst_name) == reg \cup {inst_name}
RegistryAfterInstance(reg, inst_name) == reg

\* The instance branch's test of the referenced name.
InstanceTargetAlwaysKnown(reg, comp_name) == TRUE
InstanceTargetKnown(reg, comp_name) == comp_name \in reg

\* defined_components after a component / definition that compiled and
\* validated: `if name: defined_components.add(name)`.
RegistryAfterComponent(reg, name) == IF name # PyNone THEN reg \cup {name} ELSE reg

\* anon_def_count after a definition that compiled and validated.
AnonCountAfter(cnt, explicit) == IF explicit = PyNone THEN cnt + 1 ELSE cnt

\* cmd == "component"
ComponentBranch(s, form, ext) ==
  LET node == parse_form(form)
      nk == normalize_component_form(form)
  IN
  IF nk.kind = "instance" THEN
    LET inst == parse_component_instance(node) IN
    IF inst = NoInstance THEN Fail(s, "unsupported component instance form")
    ELSE IF ~InstanceTargetKnown(s.defined_components, inst.comp) THEN
      Fail(s, "component instance references unknown component " \o inst.comp)
    ELSE [AddCommand(s, [type |-> "component_instance", name |-> inst.inst,
                          component |-> inst.comp])
            EXCEPT !.defined_components = RegistryAfterInstance(@, inst.inst)]
  ELSE IF nk.normalized = NoForm THEN
    Fail(s, "unsupported component form kind=" \o nk.kind)
  ELSE
    LET c == compile_component(ext.compile, s.comp_idx)
        s1 == Compiled(s)
    IN
    IF c.bin = PyNone THEN Fail(s1, "component parse failed: " \o c.err)
    ELSE
      LET v == validate_component(ext.validate)
          s2 == Call(s1, "validate")
      IN
      IF ~v.ok THEN Fail(s2, "component validate failed: " \o v.msg)
      ELSE IF nk.kind = "definition" THEN
        LET explicit == parse_component_definition_name(node)
            cnt == AnonCountAfter(s2.anon_def_count, explicit)
            name == IF explicit = PyNone THEN AnonName(cnt) ELSE explicit
        IN [AddCommand(s2, [type |-> "component_definition", name |-> name,
                             path |-> c.bin])
              EXCEPT !.anon_def_count = cnt,
                     !.defined_components = RegistryAfterComponent(@, name)]
      ELSE
        LET name == parse_component_name(node)
        IN [AddCommand(s2, [type |-> "component", name |-> name, path |-> c.bin,
                             instantiate |-> TRUE])
              EXCEPT !.defined_components = RegistryAfterComponent(@, name)]

\* cmd == "assert_invalid"
AssertInvalidBranch(s, form, ext) ==
  LET node == parse_form(form)
      expected_msg == extract_expected_message(node)
      component_form == find_component_form(form)
  IN
  IF component_form = NoForm THEN Fail(s, "assert_invalid missing component form")
  ELSE
    LET nk == normalize_component_form(component_form) IN
    IF nk.kind = "instance" \/ nk.normalized = NoForm THEN
      Fail(s, "assert_invalid uses unsupported component instance form")
    ELSE
      LET c == compile_component(ext.compile, s.comp_idx)
          s1 == Compiled(s)
      IN
      IF c.bin = PyNone THEN
        IF expected_msg # PyNone /\ expected_msg # ""
        THEN Fail(s1, "assert_invalid parse failed: " \o expected_msg \o ": " \o c.err)
        ELSE Fail(s1, "assert_invalid parse failed: " \o c.err)
      ELSE
        LET v == validate_component(ext.validate)
            s2 == Call(s1, "validate")
        IN
        IF v.ok THEN
          IF expected_msg # PyNone /\ expected_msg # ""
          THEN Fail(s2, "assert_invalid unexpectedly validated: " \o expected_msg)
          ELSE Fail(s2, "assert_invalid unexpectedly validated")
        ELSE IF is_unsupported_error(ext.validate) THEN
          Fail(s2, "assert_invalid failed due to unsupported feature: " \o v.msg)
        ELSE [s2 EXCEPT !.passed = @ + 1]

\* parse_module_binary(node): the payload of (module binary "..." ...), or
\* None; ok is FALSE for None.
RECURSIVE module_binary_parts(_, _, _)
module_binary_parts(v, k, parts) ==
  IF k > Len(v) THEN [ok |-> TRUE, data |-> parts]
  ELSE IF ~isinstance_StringToken(v[k]) THEN [ok |-> FALSE, data |-> <<>>]
  ELSE IF "cps" \in DOMAIN v[k] THEN
    LET d == decode_wat_bytes(v[k].cps) IN
    IF ~d.ok THEN [ok |-> FALSE, data |-> <<>>]
    ELSE module_binary_parts(v, k + 1, parts \o d.bytes)
  \* a string holding a character above 0xFF, which decode_wat_bytes refuses
  ELSE IF v[k].v \in {"\\u{100}"} THEN [ok |-> FALSE, data |-> <<>>]
  ELSE module_binary_parts(v, k + 1, Append(parts, v[k].v))
parse_module_binary(node) ==
  IF ~isinstance_list(node) \/ Len(node.v) < 3 THEN [ok |-> FALSE, data |-> <<>>]
  ELSE IF node.v[1] # Atom("module") \/ node.v[2] # Atom("binary")
  THEN [ok |-> FALSE, data |-> <<>>]
  ELSE module_binary_parts(node.v, 3, <<>>)

HasMsg(m) == m # PyNone /\ m # ""

\* assert_malformed judged as assert_invalid is: passed when the compiler
\* accepts and the validator rejects.
AssertMalformedLikeInvalid(s, form, ext) == AssertInvalidBranch(s, form, ext)

\* cmd == "assert_malformed"
AssertMalformedBranch(s, form, ext) ==
  LET node == parse_form(form)
      expected_msg == extract_expected_message(node)
      component_form == find_component_form(form)
  IN
  IF component_form = NoForm THEN
    IF isinstance_list(node) /\ Len(node.v) > 1 /\ parse_module_binary(node.v[2]).ok THEN
      LET s1 == [Call(s, "run") EXCEPT !.comp_idx = @ + 1] IN
      IF ext.run_rc # 0 THEN [s1 EXCEPT !.passed = @ + 1]
      ELSE IF HasMsg(expected_msg)
      THEN Fail(s1, "assert_malformed unexpectedly ran: " \o expected_msg)
      ELSE Fail(s1, "assert_malformed unexpectedly ran")
    ELSE Fail(s, "assert_malformed missing component form")
  ELSE
    LET nk == normalize_component_form(component_form) IN
    IF nk.kind = "instance" \/ nk.normalized = NoForm THEN
      Fail(s, "assert_malformed uses unsupported component instance form")
    ELSE
      LET c == compile_component(ext.compile, s.comp_idx)
          s1 == Compiled(s)
      IN
      IF c.bin = PyNone THEN [s1 EXCEPT !.passed = @ + 1]
      ELSE
        LET v == validate_component(ext.validate)
            s2 == Call(s1, "validate")
        IN
        IF is_unsupported_error(ext.validate) THEN
          Fail(s2, "assert_malformed failed due to unsupported feature: " \o v.msg)
        ELSE IF HasMsg(expected_msg)
        THEN Fail(s2, "assert_malformed unexpectedly parsed: " \o expected_msg)
        ELSE Fail(s2, "assert_malformed unexpectedly parsed")

\* node[2].value when node[2] is a StringToken, else None
TrailingText(node) ==
  IF isinstance_list(node) /\ Len(node.v) > 2 /\ isinstance_StringToken(node.v[3])
  THEN node.v[3].v ELSE PyNone

\* cmd == "assert_unlinkable"
AssertUnlinkableBranch(s, form, ext) ==
  LET node == parse_form(form)
      component_form == find_component_form(form)
  IN
  IF component_form = NoForm THEN Fail(s, "assert_unlinkable missing component form")
  ELSE
    LET nk == normalize_component_form(component_form) IN
    IF nk.kind = "instance" \/ nk.normalized = NoForm THEN
      Fail(s, "assert_unlinkable uses unsupported component instance form")
    ELSE
      LET c == compile_component(ext.compile, s.comp_idx)
          s1 == Compiled(s)
      IN
      IF c.bin = PyNone THEN Fail(s1, "assert_unlinkable parse failed: " \o c.err)
      ELSE
        LET v == validate_component(ext.validate)
            s2 == Call(s1, "validate")
        IN
        IF ~v.ok THEN Fail(s2, "assert_unlinkable validate failed: " \o v.msg)
        ELSE AddCommand(s2, [type |-> "assert_unlinkable", path |-> c.bin,
                             text |-> TrailingText(node)])

\* cmd == "assert_return"
AssertReturnBranch(s, form, ext) ==
  LET node == parse_form(form) IN
  IF ~isinstance_list(node) \/ Len(node.v) < 2 THEN Fail(s, "assert_return malformed")
  ELSE
    LET action == parse_invoke(node.v[2]) IN
    IF action.none THEN Fail(s, "assert_return unsupported invoke form")
    ELSE
      LET expected == parse_const_all(node.v, 3, <<>>) IN
      IF ~expected.ok THEN Fail(s, "assert_return unsupported expected value")
      ELSE AddCommand(s, [type |-> "assert_return", instance |-> action.instance,
                          field |-> action.field, args |-> action.args,
                          expected |-> expected.vals])

\* cmd == "assert_trap"
AssertTrapBranch(s, form, ext) ==
  LET node == parse_form(form) IN
  IF ~isinstance_list(node) \/ Len(node.v) < 2 THEN Fail(s, "assert_trap malformed")
  ELSE
    LET action == parse_invoke(node.v[2])
        msg == TrailingText(node)
    IN
    IF ~action.none THEN
      AddCommand(s, [type |-> "assert_trap", instance |-> action.instance,
                     field |-> action.field, args |-> action.args, text |-> msg])
    ELSE
      LET component_form == find_component_form(form) IN
      IF component_form = NoForm THEN Fail(s, "assert_trap unsupported invoke form")
      ELSE
        LET nk == normalize_component_form(component_form) IN
        IF nk.kind = "instance" \/ nk.normalized = NoForm THEN
          Fail(s, "assert_trap uses unsupported component instance form")
        ELSE
          LET c == compile_component(ext.compile, s.comp_idx)
              s1 == Compiled(s)
          IN
          IF c.bin = PyNone THEN Fail(s1, "assert_trap component parse failed: " \o c.err)
          ELSE
            LET v == validate_component(ext.validate)
                s2 == Call(s1, "validate")
            IN
            IF ~v.ok THEN Fail(s2, "assert_trap component validate failed: " \o v.msg)
            ELSE AddCommand(s2, [type |-> "assert_unlinkable", path |-> c.bin,
                                 text |-> msg])

\* cmd == "invoke"
InvokeBranchChecksRegistry(s, form, ext) ==
  LET action == parse_invoke(parse_form(form)) IN
  IF action.none THEN Fail(s, "invoke unsupported form")
  ELSE IF action.instance # PyNone /\ action.instance \notin s.defined_components
  THEN Fail(s, "invoke references unknown instance " \o action.instance)
  ELSE AddCommand(s, [type |-> "invoke", instance |-> action.instance,
                      field |-> action.field, args |-> action.args])
InvokeBranch(s, form, ext) ==
  LET node == parse_form(form)
      action == parse_invoke(node)
  IN
  IF action.none THEN Fail(s, "invoke unsupported form")
  ELSE AddCommand(s, [type |-> "invoke", instance |-> action.instance,
                      field |-> action.field, args |-> action.args])

\* else: fail(f"unhandled command: {cmd or 'unknown'}")
UnhandledBranchSilent(s, form, ext) == s
UnhandledBranch(s, form, ext) ==
  Fail(s, "unhandled command: "
          \o (IF CmdText(first_symbol(form)) # "" THEN CmdText(first_symbol(form))
              ELSE "unknown"))

\* The exception parse_form raised is not caught in run_file.
Propagate(s, node) == [s EXCEPT !.pc = "raised", !.exc = node.v]

\* The body of `for form in iter_forms(text)`, with the tools' answers `ext`.
\* An exception raised by parse_form leaves the loop: nothing catches it.
run_file_body(s0, form, ext) ==
  LET cmd == first_symbol(form)
      s == [s0 EXCEPT !.current_form_idx = @ + 1, !.current_cmd = CmdText(cmd)]
  IN
  \* the commands whose branch starts with `node = parse_form(form)`
  IF /\ cmd \in {Atom("component"), Atom("assert_invalid"), Atom("assert_malformed"),
                 Atom("assert_unlinkable"), Atom("assert_return"), Atom("assert_trap"),
                 Atom("invoke")}
     /\ parse_form(form).k = "raise"
  THEN Propagate(s, parse_form(form))
  ELSE IF cmd = Atom("component") THEN ComponentBranch(s, form, ext)
  ELSE IF cmd = Atom("assert_invalid") THEN AssertInvalidBranch(s, form, ext)
  ELSE IF cmd = Atom("assert_malformed") THEN AssertMalformedBranch(s, form, ext)
  ELSE IF cmd = Atom("assert_unlinkable") THEN AssertUnlinkableBranch(s, form, ext)
  ELSE IF cmd = Atom("assert_return") THEN AssertReturnBranch(s, form, ext)
  ELSE IF cmd = Atom("assert_trap") THEN AssertTrapBranch(s, form, ext)
  ELSE IF cmd = Atom("invoke") THEN InvokeBranch(s, form, ext)
  ELSE UnhandledBranch(s, form, ext)

\* The commands written as they are, None values included.
compact_keeps_none(cmd) == cmd

\* {k: v for k, v in cmd.items() if v is not None}: the keys that can hold
\* None are name, instance and text.
compact(cmd) ==
  [f \in DOMAIN cmd \ {g \in {"name", "instance", "text"} \cap DOMAIN cmd : cmd[g] = PyNone}
     |-> cmd[f]]

\* Lines 878-899: the batch executor's answer `out` merged into the counts.
run_file_batch_plain(s, out) ==
  LET r == run_component_script(out)
      s1 == [Call(s, "component-test") EXCEPT
               !.script = [k \in 1..Len(s.commands) |-> compact(s.commands[k])],
               !.passed = @ + r.passed, !.failed = @ + r.failed,
               !.failures = @ \o r.failures]
  IN IF ~r.saw_result
     THEN Fail(s1, "component-test failed: " \o (IF r.raw # "" THEN r.raw ELSE "no output"))
     ELSE s1
run_file_batch(s, out) ==
  LET r == run_component_script(out)
      s1 == [Call(s, "component-test") EXCEPT
               !.script = [k \in 1..Len(s.commands) |-> compact(s.commands[k])],
               !.passed = @ + r.passed, !.failed = @ + r.failed]
      s2 == IF r.skipped # 0
            THEN Fail([s1 EXCEPT !.failed = @ + r.skipped],
                      "component-test skipped " \o ToString(r.skipped) \o " command(s)")
            ELSE s1
      s3 == [s2 EXCEPT !.failures = @ \o r.failures]
  IN IF ~r.saw_result
     THEN Fail(s3, "component-test failed: " \o (IF r.raw # "" THEN r.raw ELSE "no output"))
     ELSE s3

\* finally: ...; return {"passed": ..., "failed": ..., "skipped": 0, "failures": ...}
run_file_return(s) ==
  LET s1 == IF s.keep_tmp_on_failure /\ s.failed > 0
            THEN [s EXCEPT !.failures = Append(@, "(debug) kept tmp dir")]
            ELSE [s EXCEPT !.tmp_exists = FALSE]
  IN [s1 EXCEPT !.pc = "done",
                !.result = [passed |-> s1.passed, failed |-> s1.failed,
                            skipped |-> 0, failures |-> s1.failures]]

\* finally: ..., with an exception in flight: the temporary directory is
\* removed or kept, and the exception goes on to the caller; nothing is
\* returned.
run_file_unwind_leaks(s) == [s EXCEPT !.pc = "crashed"]
run_file_unwind(s) ==
  LET s1 == IF s.keep_tmp_on_failure /\ s.failed > 0
            THEN [s EXCEPT !.failures = Append(@, "(debug) kept tmp dir")]
            ELSE [s EXCEPT !.tmp_exists = FALSE]
  IN [s1 EXCEPT !.pc = "crashed"]

\* ------------------------------------------------------------ the inputs

\* The forms iter_forms yields to run_file, as tokens; above each, the text.
Form ==
    \* (component $a)
  [ ComponentNamed |->
      <<LP, Atom("component"), Atom("$a"), RP>>,
    \* (component (core))
    ComponentAnon |->
      <<LP, Atom("component"), LP, Atom("core"), RP, RP>>,
    \* (component definition $d)
    DefinitionNamed |->
      <<LP, Atom("component"), Atom("definition"), Atom("$d"), RP>>,
    \* (component definition (core))
    DefinitionAnon |->
      <<LP, Atom("component"), Atom("definition"), LP, Atom("core"), RP, RP>>,
    \* (component $b)
    ComponentB |->
      <<LP, Atom("component"), Atom("$b"), RP>>,
    \* (component instance $b $a)
    Instance |->
      <<LP, Atom("component"), Atom("instance"), Atom("$b"), Atom("$a"), RP>>,
    \* (component instance $c $b)
    InstanceOfInstance |->
      <<LP, Atom("component"), Atom("instance"), Atom("$c"), Atom("$b"), RP>>,
    \* (component instance $b)
    InstanceShort |->
      <<LP, Atom("component"), Atom("instance"), Atom("$b"), RP>>,
    \* (invoke $b "f")
    Invoke |->
      <<LP, Atom("invoke"), Atom("$b"), Str("f"), RP>>,
    \* (invoke "f" (f32.const 1))
    InvokeBadConst |->
      <<LP, Atom("invoke"), Str("f"), LP, Atom("f32.const"), Atom("1"), RP, RP>>,
    \* (assert_return (invoke $z "f") (u32.const 5))
    AssertReturn |->
      <<LP, Atom("assert_return"), LP, Atom("invoke"), Atom("$z"), Str("f"), RP,
      LP, Atom("u32.const"), Atom("5"), RP, RP>>,
    \* (assert_trap (invoke $z "f") "trap")
    AssertTrapInvoke |->
      <<LP, Atom("assert_trap"), LP, Atom("invoke"), Atom("$z"), Str("f"), RP,
      Str("trap"), RP>>,
    \* (assert_invalid (component $q) "msg")
    AssertInvalid |->
      <<LP, Atom("assert_invalid"), LP, Atom("component"), Atom("$q"), RP, Str("msg"), RP>>,
    \* (module)
    Unknown |->
      <<LP, Atom("module"), RP>>,
    \* ((x))
    NoHead |->
      <<LP, LP, Atom("x"), RP, RP>>,
    \* ("component")
    StringHead |->
      <<LP, Str("component"), RP>>,
    \* (invoke "\u{FFFFFFFFF}")
    InvokeBigEscape |->
      <<LP, Atom("invoke"),
      Lit(<<"\"", "\\", "u", "{", "F", "F", "F", "F", "F", "F", "F", "F", "F", "}", "\"">>), RP>>,
    \* (invoke "\u{110000}")
    InvokeNoCodePoint |->
      <<LP, Atom("invoke"),
      Lit(<<"\"", "\\", "u", "{", "1", "1", "0", "0", "0", "0", "}", "\"">>), RP>>,
    \* (module "\u{FFFFFFFFF}")
    UnknownBigEscape |->
      <<LP, Atom("module"),
      Lit(<<"\"", "\\", "u", "{", "F", "F", "F", "F", "F", "F", "F", "F", "F", "}", "\"">>), RP>>,
    \* (assert_invalid (component))
    AssertInvalidNoMsg |->
      <<LP, Atom("assert_invalid"), LP, Atom("component"), RP, RP>>,
    \* (assert_invalid (component) "")
    AssertInvalidEmptyMsg |->
      <<LP, Atom("assert_invalid"), LP, Atom("component"), RP, Str(""), RP>>,
    \* (assert_invalid (component) "msg")
    AssertInvalidMsg |->
      <<LP, Atom("assert_invalid"), LP, Atom("component"), RP, Str("msg"), RP>>,
    \* (assert_invalid (component) "\u{FFFFFFFFF}")
    AssertInvalidBigEscape |->
      <<LP, Atom("assert_invalid"), LP, Atom("component"), RP,
      Lit(<<"\"", "\\", "u", "{", "F", "F", "F", "F", "F", "F", "F", "F", "F", "}", "\"">>), RP>>,
    \* (assert_malformed (component))
    AssertMalformedNoMsg |->
      <<LP, Atom("assert_malformed"), LP, Atom("component"), RP, RP>>,
    \* (assert_malformed (component) "msg")
    AssertMalformedMsg |->
      <<LP, Atom("assert_malformed"), LP, Atom("component"), RP, Str("msg"), RP>>,
    \* (assert_malformed (module binary "\00"))
    AssertMalformedBinaryNoMsg |->
      <<LP, Atom("assert_malformed"), LP, Atom("module"), Atom("binary"),
      Lit(<<"\"", "\\", "0", "0", "\"">>), RP, RP>>,
    \* (assert_malformed (module binary "\00") "msg")
    AssertMalformedBinary |->
      <<LP, Atom("assert_malformed"), LP, Atom("module"), Atom("binary"),
      Lit(<<"\"", "\\", "0", "0", "\"">>), RP, Str("msg"), RP>>,
    \* (assert_malformed (module binary "\u{100}") "msg")
    AssertMalformedNonByte |->
      <<LP, Atom("assert_malformed"), LP, Atom("module"), Atom("binary"),
      Lit(<<"\"", "\\", "u", "{", "1", "0", "0", "}", "\"">>), RP, Str("msg"), RP>>,
    \* (assert_invalid (module binary "\00") "msg")
    AssertInvalidBinary |->
      <<LP, Atom("assert_invalid"), LP, Atom("module"), Atom("binary"),
      Lit(<<"\"", "\\", "0", "0", "\"">>), RP, Str("msg"), RP>>,
    \* (assert_unlinkable (module binary "\00") "msg")
    AssertUnlinkableBinary |->
      <<LP, Atom("assert_unlinkable"), LP, Atom("module"), Atom("binary"),
      Lit(<<"\"", "\\", "0", "0", "\"">>), RP, Str("msg"), RP>>,
    \* (assert_trap (module binary "\00") "msg")
    AssertTrapBinary |->
      <<LP, Atom("assert_trap"), LP, Atom("module"), Atom("binary"),
      Lit(<<"\"", "\\", "0", "0", "\"">>), RP, Str("msg"), RP>>,
    \* (invoke "f" (u32.const 5))
    InvokeAnonArg |->
      <<LP, Atom("invoke"), Str("f"), LP, Atom("u32.const"), Atom("5"), RP, RP>>,
    \* (invoke "")
    InvokeEmptyField |->
      <<LP, Atom("invoke"), Str(""), RP>>,
    \* (assert_trap (invoke "f") "")
    AssertTrapEmptyText |->
      <<LP, Atom("assert_trap"), LP, Atom("invoke"), Str("f"), RP, Str(""), RP>>,
    \* (assert_trap (invoke $z "f"))
    AssertTrapNoText |->
      <<LP, Atom("assert_trap"), LP, Atom("invoke"), Atom("$z"), Str("f"), RP, RP>>,
    \* (assert_return (invoke "f" (u32.const 5)))
    AssertReturnNoExpected |->
      <<LP, Atom("assert_return"), LP, Atom("invoke"), Str("f"),
      LP, Atom("u32.const"), Atom("5"), RP, RP, RP>> ]

\* Answers of the text-to-binary compiler.
Compiler ==
  [ Ok |->
      [rc |-> 0, diag |-> ""],
    Fail |->
      [rc |-> 1, diag |-> "error: unexpected token"] ]

\* Outputs of the validator: the text, the markers it contains (has), the
\* markers its lower-cased text contains (lower), and the exit code (rc).
Validator ==
  [ Ok |->
      [text |-> "component validated ok", has |-> {"component validated ok"},
      lower |-> {"component validated ok"}, rc |-> 0],
    Error |->
      [text |-> "validate component error: type mismatch",
      has |-> {"validate component error"}, lower |-> {"validate component error"},
      rc |-> 1],
    \* a rejection that names a feature the runtime does not implement
    Unsupported |->
      [text |-> "validate component error: Unsupported canon opcode 0x09",
      has |-> {"validate component error"},
      lower |-> {"validate component error", "unsupported canon opcode"}, rc |-> 1],
    \* no marker at all
    Unknown |->
      [text |-> "", has |-> {}, lower |-> {}, rc |-> 0],
    \* both markers: the error marker is tested first
    Both |->
      [text |-> "component validated ok\nvalidate component error: late",
      has |-> {"component validated ok", "validate component error"},
      lower |-> {"component validated ok", "validate component error"}, rc |-> 0],
    \* the ok marker and a nonzero exit code
    OkExitOne |->
      [text |-> "component validated ok", has |-> {"component validated ok"},
      lower |-> {"component validated ok"}, rc |-> 1],
    \* an error marker and exit code 0
    ErrorExitZero |->
      [text |-> "validate component error: type mismatch",
      has |-> {"validate component error"}, lower |-> {"validate component error"},
      rc |-> 0],
    \* the other error marker
    ParseError |->
      [text |-> "parse component error: bad magic",
      has |-> {"parse component error"}, lower |-> {"parse component error"}, rc |-> 1],
    \* the other error marker after the ok marker
    OkThenParseError |->
      [text |-> "component validated ok\nparse component error: trailing bytes",
      has |-> {"component validated ok", "parse component error"},
      lower |-> {"component validated ok", "parse component error"}, rc |-> 0],
    \* no marker and a nonzero exit code
    Crash |->
      [text |-> "Segmentation fault", has |-> {}, lower |-> {}, rc |-> 1] ]

\* the validator was not run
NoOutput == [text |-> PyNone, has |-> {}, lower |-> {}, rc |-> -1]

\* Outputs of the batch executor for a script of n commands: the parsed
\* lines and the raw text.  Flood is an output of as many FAIL lines as the
\* failure list may hold.
BatchOutput(kind, n) ==
  LET ResultLine(p, f, k) ==
        [kind |-> "RESULT",
         parts |-> <<[key |-> "passed", val |-> p], [key |-> "failed", val |-> f],
                     [key |-> "skipped", val |-> k]>>]
      ResultText(p, f, k) ==
        "RESULT passed=" \o ToString(p) \o " failed=" \o ToString(f)
          \o " skipped=" \o ToString(k)
      FloodLines == FailureCap
      RECURSIVE FloodText(_)
      FloodText(m) == IF m <= 1 THEN "FAIL x" ELSE FloodText(m - 1) \o "\nFAIL x"
  IN
  CASE kind = "pass" ->   \* every command passed
         [lines |-> <<ResultLine(n, 0, 0)>>, raw |-> ResultText(n, 0, 0)]
    [] kind = "fail" ->   \* one command failed
         [lines |-> <<[kind |-> "FAIL", detail |-> "mismatch"], ResultLine(n - 1, 1, 0)>>,
          raw |-> "FAIL mismatch\n" \o ResultText(n - 1, 1, 0)]
    [] kind = "skip" ->   \* one command skipped
         [lines |-> <<ResultLine(n - 1, 0, 1)>>, raw |-> ResultText(n - 1, 0, 1)]
    [] kind = "none" ->   \* the executor died before its RESULT line
         [lines |-> <<[kind |-> "other", text |-> "panic"]>>, raw |-> "panic"]
    [] kind = "failnone" ->   \* two FAIL lines and no RESULT line
         [lines |-> <<[kind |-> "FAIL", detail |-> "a"], [kind |-> "FAIL", detail |-> "b"]>>,
          raw |-> "FAIL a\nFAIL b"]
    [] kind = "flood" ->   \* many FAIL lines and no RESULT line
         [lines |-> [k \in 1..FloodLines |-> [kind |-> "FAIL", detail |-> "x"]],
          raw |-> FloodText(FloodLines)]
    [] kind = "skipfail" ->   \* one passed, one failed, one skipped
         [lines |-> <<[kind |-> "FAIL", detail |-> "mismatch"], ResultLine(1, 1, 1)>>,
          raw |-> "FAIL mismatch\n" \o ResultText(1, 1, 1)]

\* Literal forms, the inputs of parse_const: a number and a string kind with
\* the element they need and with the other one, a type tag that is not
\* supported, a head that does not end in `.const` or that is a string
\* literal, a literal without a value, and lists (empty, flat, nested, with
\* an undecodable child).
ConstLiterals ==
  LET u32 == <<LP, Atom("u32.const"), Atom("5"), RP>>
      str == <<LP, Atom("str.const"), Str("a"), RP>>
      f32 == <<LP, Atom("f32.const"), Atom("1"), RP>>
      list(items) == <<LP, Atom("list.const")>> \o items \o <<RP>>
  IN {u32, str, f32,
      <<LP, Atom("s64.const"), Str("5"), RP>>,
      <<LP, Atom("str.const"), Atom("a"), RP>>,
      <<LP, Atom("u32.const"), RP>>,
      <<LP, Atom("const"), Atom("5"), RP>>,
      <<LP, Str("u32.const"), Atom("5"), RP>>,
      list(<<>>), list(u32 \o str), list(u32 \o f32), list(list(u32))}

ToolAnswers ==
  [compile : {Compiler.Ok, Compiler.Fail}, validate : {Validator.Ok, Validator.Error},
   run_rc : {1}]

\* The inputs of each specification: the forms a file may hold, the tools'
\* answers, and the kinds of output of the batch executor.
Menu ==
    \* Inputs of Spec: components, definitions, instances and one nested
    \* component.
  [ Registry |->
      [forms |-> {Form.ComponentNamed, Form.ComponentAnon, Form.DefinitionNamed,
                  Form.DefinitionAnon, Form.Instance, Form.InstanceOfInstance,
                  Form.AssertInvalid},
       answers |-> ToolAnswers,
       batch |-> {"pass"}],
    \* Inputs of SpecInvoke: invoke-shaped forms, unrecognised forms, an instance
    \* form without a target, and two forms that go to the compiler and the
    \* validator, one of which defines the name an invoke uses.
    Invoke |->
      [forms |-> {Form.Invoke, Form.InvokeBadConst, Form.AssertReturn, Form.AssertTrapInvoke,
                  Form.Unknown, Form.NoHead, Form.StringHead, Form.InstanceShort,
                  Form.ComponentB, Form.AssertInvalid},
       answers |-> ToolAnswers,
       batch |-> {"pass", "fail", "skip", "none"}],
    \* Inputs of SpecAssert: assert_invalid forms with and without a message,
    \* two forms that fill the RunScript or fail, and every kind of validator
    \* output.
    Asserts |->
      [forms |-> {Form.AssertInvalid, Form.AssertInvalidNoMsg, Form.AssertInvalidEmptyMsg,
                  Form.Invoke, Form.Unknown},
       answers |-> [compile : {Compiler.Ok, Compiler.Fail},
                    validate : {Validator.Ok, Validator.Error, Validator.Unsupported,
                                Validator.Unknown, Validator.Both},
                    run_rc : {1}],
       batch |-> {"pass"}],
    \* Inputs of SpecMain: a form that fails, a form that becomes a command and
    \* a form whose string literal makes parse_string raise; the batch executor
    \* passes every command or dies.
    Main |->
      [forms |-> {Form.Unknown, Form.Invoke, Form.InvokeBigEscape},
       answers |-> [compile : {Compiler.Ok}, validate : {Validator.Ok}, run_rc : {1}],
       batch |-> {"pass", "none"}],
    \* Inputs of SpecBatch: forms that become commands, a form that fails, and
    \* every kind of output of the batch executor.
    Batch |->
      [forms |-> {Form.Invoke, Form.AssertReturn, Form.Unknown},
       answers |-> [compile : {Compiler.Ok}, validate : {Validator.Ok}, run_rc : {1}],
       batch |-> {"pass", "fail", "skip", "none", "failnone", "flood", "skipfail"}],
    \* Inputs of SpecRaise: forms that fail in each way (unrecognised, tool
    \* failure, assertion violation), forms that go through, and string literals
    \* with \u{...} escapes that name no character.
    Raise |->
      [forms |-> {Form.Unknown, Form.Invoke, Form.ComponentNamed, Form.AssertInvalid,
                  Form.InvokeBigEscape, Form.InvokeNoCodePoint, Form.UnknownBigEscape},
       answers |-> ToolAnswers,
       batch |-> {"pass"}],
    \* Inputs of SpecSuite: a definition that gets a synthesized name, a
    \* component that registers its name, an instance of that name, and a form
    \* whose string literal makes parse_string raise.
    Suite |->
      [forms |-> {Form.DefinitionAnon, Form.ComponentNamed, Form.Instance,
                  Form.InvokeBigEscape},
       answers |-> [compile : {Compiler.Ok}, validate : {Validator.Ok}, run_rc : {1}],
       batch |-> {"pass"}],
    \* Inputs of SpecMessage: assert_invalid and assert_malformed forms around
    \* a component or a binary module, each with and without its trailing
    \* string, one string with an escape that makes parse_string raise, and a
    \* form that becomes a command; every tool accepts or rejects.
    Message |->
      [forms |-> {Form.AssertInvalidNoMsg, Form.AssertInvalidMsg,
                  Form.AssertInvalidBigEscape, Form.AssertMalformedNoMsg,
                  Form.AssertMalformedMsg, Form.AssertMalformedBinaryNoMsg,
                  Form.AssertMalformedBinary, Form.Invoke},
       answers |-> [compile : {Compiler.Ok, Compiler.Fail},
                    validate : {Validator.Ok, Validator.Error}, run_rc : {0, 1}],
       batch |-> {"pass"}],
    \* Inputs of SpecValidate: a component and an assert_invalid, which go to
    \* the compiler and the validator, and every kind of validator output.
    Validate |->
      [forms |-> {Form.ComponentNamed, Form.AssertInvalidMsg},
       answers |-> [compile : {Compiler.Ok, Compiler.Fail},
                    validate : {Validator.Ok, Validator.Error, Validator.Unknown,
                                Validator.Both, Validator.OkExitOne,
                                Validator.ErrorExitZero, Validator.ParseError,
                                Validator.OkThenParseError, Validator.Crash},
                    run_rc : {1}],
       batch |-> {"pass"}],
    \* Inputs of SpecBinary: each assertion around (module binary "..."), the
    \* payload a byte or a character that is none, and a form that becomes a
    \* command; the module runner accepts or rejects.
    Binary |->
      [forms |-> {Form.AssertMalformedBinaryNoMsg, Form.AssertMalformedBinary,
                  Form.AssertMalformedNonByte, Form.AssertInvalidBinary,
                  Form.AssertUnlinkableBinary, Form.AssertTrapBinary,
                  Form.AssertMalformedMsg, Form.Invoke},
       answers |-> [compile : {Compiler.Ok, Compiler.Fail}, validate : {Validator.Ok},
                    run_rc : {0, 1}],
       batch |-> {"pass"}],
    \* Inputs of SpecScript: forms that become commands with and without an
    \* instance, arguments, expected values and a trap text, the text and the
    \* field name empty or not, an unnamed component, and a form that fails.
    Script |->
      [forms |-> {Form.Invoke, Form.InvokeAnonArg, Form.InvokeEmptyField,
                  Form.AssertTrapEmptyText, Form.AssertTrapNoText,
                  Form.AssertReturnNoExpected, Form.AssertReturn, Form.ComponentAnon,
                  Form.Unknown},
       answers |-> [compile : {Compiler.Ok}, validate : {Validator.Ok}, run_rc : {1}],
       batch |-> {"pass", "none"}],
    \* Inputs of SpecConst: (invoke "f" L) for every literal form L, and
    \* (assert_return (invoke "f") L) for the literals without a value,
    \* (u32.const) and (list.const).
    Const |->
      [forms |-> {<<LP, Atom("invoke"), Str("f")>> \o l \o <<RP>> : l \in ConstLiterals}
                 \cup {<<LP, Atom("assert_return"), LP, Atom("invoke"), Str("f"), RP>>
                         \o l \o <<RP>> :
                       l \in {l \in ConstLiterals : Len(l) = 3}},
       answers |-> [compile : {Compiler.Ok}, validate : {Validator.Ok}, run_rc : {1}],
       batch |-> {"pass"}],
    \* Inputs of SpecTools: the forms that go to the compiler and the validator
    \* and may add a command naming the compiled file, among them
    \* (assert_unlinkable (component) "msg") and (assert_trap (component) "msg"),
    \* and the kinds that reach no tool: an instance, an unrecognised form, an
    \* invoke and an assert_trap around an invoke; an assert_malformed around
    \* a binary module, which is written next to the compiled files; each tool
    \* accepts or rejects.
    Tools |->
      [forms |-> {Form.ComponentNamed, Form.DefinitionAnon, Form.Instance, Form.Unknown,
                  Form.Invoke, Form.AssertTrapInvoke, Form.AssertInvalid,
                  Form.AssertMalformedBinary,
                  <<LP, Atom("assert_unlinkable"), LP, Atom("component"), RP,
                    Str("msg"), RP>>,
                  <<LP, Atom("assert_trap"), LP, Atom("component"), RP, Str("msg"), RP>>},
       answers |-> ToolAnswers,
       batch |-> {"pass"}],
    \* Inputs of SpecMalformed: assert_malformed around a component, with and
    \* without the trailing string, and around an instance form; a form that
    \* becomes a command; the compiler accepts or rejects, and the validator
    \* answers in each way.
    Malformed |->
      [forms |-> {Form.AssertMalformedMsg, Form.AssertMalformedNoMsg,
                  <<LP, Atom("assert_malformed"), LP, Atom("component"), Atom("instance"),
                    Atom("$b"), Atom("$a"), RP, Str("msg"), RP>>,
                  Form.Invoke},
       answers |-> [compile : {Compiler.Ok, Compiler.Fail},
                    validate : {Validator.Ok, Validator.Error, Validator.Unsupported,
                                Validator.ParseError, Validator.Unknown, Validator.Crash},
                    run_rc : {1}],
       batch |-> {"pass"}] ]

NoMenu == [forms |-> {}, answers |-> {}, batch |-> {}]

\* ---------------------------------------------------- literals: inputs

\* The payloads of (module binary "..." ...): one literal, or two.
\*   HexPairTexts: "\XX" for every pair of hex digits, upper or lower case;
\*   TwoPairTexts: two escapes in one literal, on a sample of digits;
\*   OtherTexts: literals with the other escapes: \n, a fallback escape,
\*     \u{41}, \u{110000} (no such code point), \u{100} (not a byte),
\*     \u{FFFFFFFFF} (more than a C int), \u{z}, an unterminated \u{, an
\*     unterminated literal.
Payloads ==
  LET HexPairTexts == {<<"\"", "\\", h, l, "\"">> : h \in HexChars, l \in HexChars}
      SampleHex == {"0", "7", "8", "f", "F"}
      TwoPairTexts ==
        {<<"\"", "\\", a, b, "\\", c, d, "\"">> : a \in {"0", "8", "F"}, b \in {"0", "f"},
                                                   c \in {"7", "f"}, d \in SampleHex}
      OtherTexts ==
        {<<"\"", "\\", "n", "\"">>, <<"\"", "\\", "z", "\"">>, <<"\"", "z", "\"">>,
         <<"\"", "\\", "u", "{", "4", "1", "}", "\"">>,
         <<"\"", "\\", "u", "{", "1", "1", "0", "0", "0", "0", "}", "\"">>,
         <<"\"", "\\", "u", "{", "1", "0", "0", "}", "\"">>,
         <<"\"", "\\", "u", "{", "F", "F", "F", "F", "F", "F", "F", "F", "F", "}", "\"">>,
         <<"\"", "\\", "u", "{", "z", "}", "\"">>,
         <<"\"", "\\", "u", "{", "4", "1", "\"">>,
         <<"\"", "\\", "a", "\"">>,
         <<"\"", "z">>, <<"\"", "\\">>}
  IN {<<t>> : t \in HexPairTexts \cup TwoPairTexts \cup OtherTexts}
       \cup {<<t1, t2>> : t1 \in {<<"\"", "\\", h, "0", "\"">> : h \in SampleHex},
                          t2 \in {<<"\"", "\\", "f", l, "\"">> : l \in SampleHex}}

NoLiteral == [pc |-> "idle", texts |-> <<>>, toks |-> <<>>, exc |-> "",
              data |-> [ok |-> FALSE, data |-> <<>>]]

\* ------------------------------------------------------------------ main

\* Most .wast files the suite of the main specification holds.
MaxFiles == 2

\* main before it is called / the locals of main at its start.  What the
\* file system holds is an input: whether the wasmoon binary and the test
\* directory exist, and how many .wast files the directory holds.
NoSuite ==
  [pc |-> "idle", wasmoon_exists |-> FALSE, dir_exists |-> FALSE, nfiles |-> 0,
   keep_tmp_on_failure |-> FALSE, file |-> 0,
   total_passed |-> 0, total_failed |-> 0, total_skipped |-> 0,
   files_ok |-> 0, files_failed |-> 0, exit_code |-> 0, traceback |-> FALSE,
   \* for the properties: the names the earlier files registered
   seen |-> {}]
main_init(wasmoon_exists, dir_exists, nfiles, keep) ==
  [NoSuite EXCEPT !.pc = "start", !.wasmoon_exists = wasmoon_exists,
                  !.dir_exists = dir_exists, !.nfiles = nfiles,
                  !.keep_tmp_on_failure = keep]

\* `return 1` / `return 0 if total_failed == 0 else 1`, handed to sys.exit.
main_exit(m, code) == [m EXCEPT !.pc = "exited", !.exit_code = code]

\* Lines 935-961: the checks before the loop.
main_start(m) ==
  IF ~m.wasmoon_exists THEN main_exit(m, 1)
  ELSE IF ~m.dir_exists THEN main_exit(m, 1)
  ELSE IF m.nfiles = 0 THEN main_exit(m, 1)
  ELSE [m EXCEPT !.pc = "loop"]

\* Lines 964-976: the result of one file added to the totals.
main_collect(m, result) ==
  [m EXCEPT !.pc = "loop", !.file = @ + 1,
            !.total_passed = @ + result.passed,
            !.total_failed = @ + result.failed,
            !.total_skipped = @ + result.skipped,
            !.files_ok = IF result.failed = 0 THEN @ + 1 ELSE @,
            !.files_failed = IF result.failed = 0 THEN @ ELSE @ + 1]

\* return 0 if total_failed == 0 else 1
main_return_always_zero(m) == main_exit(m, 0)
main_return(m) == main_exit(m, IF m.total_failed = 0 THEN 0 ELSE 1)

\* An exception that leaves run_file leaves main too: the interpreter prints
\* the traceback and the process exits with status 1.
main_uncaught(m) == [main_exit(m, 1) EXCEPT !.traceback = TRUE]

\* result = run_file(wast_file, wasmoon, keep_tmp_on_failure=...): the locals
\* of the new call are those run_file initialises.
main_call_run_file_stale(m) ==
  [pc |-> "forms", keep_tmp_on_failure |-> m.keep_tmp_on_failure,
   passed |-> 0, failed |-> 0, failures |-> <<>>,
   defined_components |-> m.seen, anon_def_count |-> Cardinality(m.seen),
   current_form_idx |-> 0, current_cmd |-> "",
   commands |-> <<>>, comp_idx |-> 0, tmp_exists |-> TRUE, exc |-> "", script |-> <<>>,
   result |-> [passed |-> 0, failed |-> 0, skipped |-> 0, failures |-> <<>>],
   calls |-> <<>>, log |-> <<>>, batch_out |-> [lines |-> <<>>, raw |-> ""]]
main_call_run_file(m) == run_file_init(m.keep_tmp_on_failure)

\* run_file is not running.
RunFileIdle == [run_file_init(FALSE) EXCEPT !.pc = "idle"]

\* --------------------------------------------- the scanners below iter_forms
\* extract_form, find_component_form, skip_ws_and_comments and
\* skip_block_comment on the characters of a text, one loop iteration at a
\* time.  A scanner's locals are a record: fn is the function that was
\* called, pc the function whose loop is running ("returned" after the return),
\* i the offset, result the text returned (NoForm for None; the skip
\* functions return i), steps the iterations of the running loop so far.

\* str.isspace() on one character.
isspace(c) == c \in {" ", "\t", "\n", "\r"}

\* The locals when fn is entered with offset i: skip_block_comment sets
\* depth = 1 and steps over the opener, extract_form keeps start.
lex_init(fn, t, i) ==
  [fn |-> fn, pc |-> fn, text |-> t, start |-> i,
   i |-> IF fn = "skip_block_comment" THEN i + 2 ELSE i,
   depth |-> IF fn = "skip_block_comment" THEN 1 ELSE 0,
   in_string |-> FALSE, escape |-> FALSE, block_depth |-> 0,
   result |-> NoForm, steps |-> 0]

\* skip_block_comment: one test of the while condition and, when it holds,
\* one iteration.
skip_block_comment_step(s) ==
  LET t == s.text
      k == s.i
      two(a, b) == At(t, k) = a /\ k + 1 < Len(t) /\ At(t, k + 1) = b
  IN
  IF ~(k < Len(t) /\ s.depth > 0) THEN [s EXCEPT !.pc = "returned"]
  ELSE IF two("(", ";") THEN [s EXCEPT !.depth = @ + 1, !.i = k + 2, !.steps = @ + 1]
  ELSE IF two(";", ")") THEN [s EXCEPT !.depth = @ - 1, !.i = k + 2, !.steps = @ + 1]
  ELSE [s EXCEPT !.i = k + 1, !.steps = @ + 1]

\* skip_block_comment(text, i): the offset it returns.
skip_block_comment(t, i) ==
  LET RECURSIVE loop(_, _)
      loop(k, depth) ==
        IF ~(k < Len(t) /\ depth > 0) THEN k
        ELSE IF At(t, k) = "(" /\ k + 1 < Len(t) /\ At(t, k + 1) = ";"
        THEN loop(k + 2, depth + 1)
        ELSE IF At(t, k) = ";" /\ k + 1 < Len(t) /\ At(t, k + 1) = ")"
        THEN loop(k + 2, depth - 1)
        ELSE loop(k + 1, depth)
  IN loop(i + 2, 1)

\* skip_ws_and_comments: one test of the while condition and, when it holds,
\* one iteration (`break` returns).
skip_ws_and_comments_step(s) ==
  LET t == s.text
      k == s.i
      nxt(ch) == k + 1 < Len(t) /\ At(t, k + 1) = ch
  IN
  IF ~(k < Len(t)) THEN [s EXCEPT !.pc = "returned"]
  ELSE IF isspace(At(t, k)) THEN [s EXCEPT !.i = k + 1, !.steps = @ + 1]
  ELSE IF At(t, k) = ";" /\ nxt(";")
  THEN [s EXCEPT !.i = skip_line_comment(t, k + 2), !.steps = @ + 1]
  ELSE IF At(t, k) = "(" /\ nxt(";")
  THEN [s EXCEPT !.i = skip_block_comment(t, k), !.steps = @ + 1]
  ELSE [s EXCEPT !.pc = "returned", !.steps = @ + 1]

\* skip_ws_and_comments(text, i): the offset it returns.
RECURSIVE skip_ws_and_comments(_, _)
skip_ws_and_comments(t, i) ==
  IF ~(i < Len(t)) THEN i
  ELSE IF isspace(At(t, i)) THEN skip_ws_and_comments(t, i + 1)
  ELSE IF At(t, i) = ";" /\ i + 1 < Len(t) /\ At(t, i + 1) = ";"
  THEN skip_ws_and_comments(t, skip_line_comment(t, i + 2))
  ELSE IF At(t, i) = "(" /\ i + 1 < Len(t) /\ At(t, i + 1) = ";"
  THEN skip_ws_and_comments(t, skip_block_comment(t, i))
  ELSE i

\* parse_atom(text, i) on the characters of a form: the text up to the next
\* whitespace or parenthesis, None when it is empty.  closed tells a list
\* that was returned at its ')' (`return items, i + 1`) from one returned
\* after the loop (`return items, i`).
parse_atom_text(t, i) ==
  LET start == skip_ws_and_comments(t, i)
      RECURSIVE loop(_)
      loop(k) ==
        IF k < Len(t) /\ ~isspace(At(t, k)) /\ At(t, k) \notin {"(", ")"}
        THEN loop(k + 1) ELSE k
      end == loop(start)
  IN IF start = end THEN [node |-> None, i |-> end, closed |-> FALSE]
     ELSE [node |-> Atom(Slice(t, start, end)), i |-> end, closed |-> FALSE]

\* parse_sexpr(text, i) on the characters of a form.
RECURSIVE parse_sexpr_text(_, _), parse_items_text(_, _, _)
parse_sexpr_text(t, i) ==
  LET k == skip_ws_and_comments(t, i) IN
  IF k >= Len(t) THEN [node |-> None, i |-> k, closed |-> FALSE]
  ELSE IF At(t, k) = "(" THEN parse_items_text(t, k + 1, <<>>)
  ELSE IF At(t, k) = "\"" THEN
    LET r == parse_string(t, k) IN
    IF r.exc # "" THEN [node |-> Raised(r.exc), i |-> r.i, closed |-> FALSE]
    ELSE IF r.none THEN [node |-> None, i |-> r.i, closed |-> FALSE]
    ELSE [node |-> StringToken(r.value), i |-> r.i, closed |-> FALSE]
  ELSE parse_atom_text(t, k)
\* the `while i < len(text)` loop of the '(' case
parse_items_text(t, i, items) ==
  IF i < Len(t) THEN
    LET k == skip_ws_and_comments(t, i) IN
    IF k < Len(t) /\ At(t, k) = ")"
    THEN [node |-> List(items), i |-> k + 1, closed |-> TRUE]
    ELSE LET r == parse_sexpr_text(t, k) IN
      IF r.node.k = "raise" THEN r
      ELSE IF r.node = None THEN [node |-> List(items), i |-> r.i, closed |-> FALSE]
      ELSE parse_items_text(t, r.i, Append(items, r.node))
  ELSE [node |-> List(items), i |-> i, closed |-> FALSE]

\* The symbol read at i itself, whitespace and comments not skipped.
read_symbol_no_skip(t, i) ==
  LET stops == {j \in i..Len(t) :
                  j = Len(t) \/ isspace(At(t, j)) \/ At(t, j) \in {"(", ")"}}
      end == CHOOSE j \in stops : \A q \in stops : j <= q
  IN IF i >= Len(t) THEN NoForm ELSE Slice(t, i, end)

\* read_symbol(text, i)[0] on characters: the symbol, NoForm for None.
read_symbol_text(t, i) ==
  LET start == skip_ws_and_comments(t, i)
      stops == {j \in start..Len(t) :
                  j = Len(t) \/ isspace(At(t, j)) \/ At(t, j) \in {"(", ")"}}
      end == CHOOSE j \in stops : \A q \in stops : j <= q
  IN IF start >= Len(t) THEN NoForm ELSE Slice(t, start, end)

\* extract_form: one test of the while condition and, when it holds, one
\* iteration; `return text[start : i + 1]` and the final `return None`.
extract_form_step(s) ==
  LET t == s.text
      k == s.i
      c == At(t, k)
      nxt(ch) == k + 1 < Len(t) /\ At(t, k + 1) = ch
  IN
  IF ~(k < Len(t)) THEN [s EXCEPT !.pc = "returned", !.result = NoForm]
  ELSE IF s.block_depth > 0 THEN
    IF c = "(" /\ nxt(";") THEN [s EXCEPT !.block_depth = @ + 1, !.i = k + 2, !.steps = @ + 1]
    ELSE IF c = ";" /\ nxt(")")
    THEN [s EXCEPT !.block_depth = @ - 1, !.i = k + 2, !.steps = @ + 1]
    ELSE [s EXCEPT !.i = k + 1, !.steps = @ + 1]
  ELSE IF s.in_string THEN
    IF s.escape THEN [s EXCEPT !.escape = FALSE, !.i = k + 1, !.steps = @ + 1]
    ELSE IF c = "\\" THEN [s EXCEPT !.escape = TRUE, !.i = k + 1, !.steps = @ + 1]
    ELSE IF c = "\"" THEN [s EXCEPT !.in_string = FALSE, !.i = k + 1, !.steps = @ + 1]
    ELSE [s EXCEPT !.i = k + 1, !.steps = @ + 1]
  ELSE IF c = ";" /\ nxt(";")
  THEN [s EXCEPT !.i = skip_line_comment(t, k + 2), !.steps = @ + 1]
  ELSE IF c = "(" /\ nxt(";") THEN [s EXCEPT !.block_depth = 1, !.i = k + 2, !.steps = @ + 1]
  ELSE IF c = "\"" THEN [s EXCEPT !.in_string = TRUE, !.i = k + 1, !.steps = @ + 1]
  ELSE IF c = "(" THEN [s EXCEPT !.depth = @ + 1, !.i = k + 1, !.steps = @ + 1]
  ELSE IF c = ")" THEN
    IF s.depth - 1 = 0
    THEN [s EXCEPT !.depth = @ - 1, !.pc = "returned", !.steps = @ + 1,
                   !.result = Slice(t, s.start, k + 1)]
    ELSE [s EXCEPT !.depth = @ - 1, !.i = k + 1, !.steps = @ + 1]
  ELSE [s EXCEPT !.i = k + 1, !.steps = @ + 1]

\* find_component_form: one test of the while condition and, when it holds,
\* one iteration; `return extract_form(form, i)` enters extract_form at i.
find_component_form_step(s) ==
  LET t == s.text
      k == s.i
      c == At(t, k)
      nxt(ch) == k + 1 < Len(t) /\ At(t, k + 1) = ch
  IN
  IF ~(k < Len(t)) THEN [s EXCEPT !.pc = "returned", !.result = NoForm]
  ELSE IF s.block_depth > 0 THEN
    IF c = "(" /\ nxt(";") THEN [s EXCEPT !.block_depth = @ + 1, !.i = k + 2, !.steps = @ + 1]
    ELSE IF c = ";" /\ nxt(")")
    THEN [s EXCEPT !.block_depth = @ - 1, !.i = k + 2, !.steps = @ + 1]
    ELSE [s EXCEPT !.i = k + 1, !.steps = @ + 1]
  ELSE IF s.in_string THEN
    IF s.escape THEN [s EXCEPT !.escape = FALSE, !.i = k + 1, !.steps = @ + 1]
    ELSE IF c = "\\" THEN [s EXCEPT !.escape = TRUE, !.i = k + 1, !.steps = @ + 1]
    ELSE IF c = "\"" THEN [s EXCEPT !.in_string = FALSE, !.i = k + 1, !.steps = @ + 1]
    ELSE [s EXCEPT !.i = k + 1, !.steps = @ + 1]
  ELSE IF c = ";" /\ nxt(";")
  THEN [s EXCEPT !.i = skip_line_comment(t, k + 2), !.steps = @ + 1]
  ELSE IF c = "(" /\ nxt(";") THEN [s EXCEPT !.block_depth = 1, !.i = k + 2, !.steps = @ + 1]
  ELSE IF c = "\"" THEN [s EXCEPT !.in_string = TRUE, !.i = k + 1, !.steps = @ + 1]
  ELSE IF c = "(" /\ read_symbol_text(t, k + 1) = <<"c", "o", "m", "p", "o", "n", "e", "n", "t">>
  THEN [lex_init("extract_form", t, k) EXCEPT !.fn = s.fn]
  ELSE [s EXCEPT !.i = k + 1, !.steps = @ + 1]

\* The scanners' input texts: up to MaxLen - 2 pieces, a piece being one
\* character of the Alphabet other than the letter, the head `(component`
\* with a space after it, or a string literal, a line comment or a block
\* comment that holds `(component)`.
LexTexts ==
  LET head == <<"(", "c", "o", "m", "p", "o", "n", "e", "n", "t">>
      Pieces ==
        {<<c>> : c \in Alphabet \ {"a"}} \cup
        {head \o <<" ">>, <<"\"">> \o head \o <<")", "\"">>,
         <<";", ";">> \o head \o <<")", "\n">>, <<"(", ";">> \o head \o <<")", ";", ")">>}
      RECURSIVE Flatten(_)
      Flatten(ps) == IF ps = <<>> THEN <<>> ELSE Head(ps) \o Flatten(Tail(ps))
  IN {Flatten(ps) : ps \in UNION {[1..n -> Pieces] : n \in 0..(MaxLen - 2)}}

\* The texts of the files whose forms are scanned, extracted, searched and
\* parsed: up to MaxLen - 1 pieces, a piece being a parenthesis, a semicolon,
\* a quote, a newline, the word `component`, the form `(component)`, or a
\* string literal, a line comment or a block comment that holds `(component)`.
FormTexts ==
  LET word == <<"c", "o", "m", "p", "o", "n", "e", "n", "t">>
      Pieces ==
        {<<c>> : c \in {"(", ")", ";", "\"", "\n"}} \cup
        {word, <<"(">> \o word \o <<")">>, <<"\"", "(">> \o word \o <<")", "\"">>,
         <<";", ";", "(">> \o word \o <<")", "\n">>,
         <<"(", ";", "(">> \o word \o <<")", ";", ")">>}
      RECURSIVE Flatten(_)
      Flatten(ps) == IF ps = <<>> THEN <<>> ELSE Head(ps) \o Flatten(Tail(ps))
  IN {Flatten(ps) : ps \in UNION {[1..n -> Pieces] : n \in 0..(MaxLen - 1)}}

\* ------------------------------------------------------------- actions

vars == <<scan, rf, menu, lit, suite>>

\* The end of the text yields what is still open as a form.
IterDoneFlush ==
  /\ scan.pc = "loop"
  /\ scan.i >= Len(scan.text)
  /\ scan' = [scan EXCEPT
               !.pc = "done",
               !.out = IF scan.start # NoStart
                       THEN Append(@, [start |-> scan.start,
                                       form |-> Slice(scan.text, scan.start, Len(scan.text))])
                       ELSE @]
  /\ UNCHANGED <<rf, menu, lit, suite>>

\* while i < len(text): one loop iteration.
IterStep ==
  /\ scan.pc = "loop"
  /\ scan.i < Len(scan.text)
  /\ scan' = [iter_forms_step(scan) EXCEPT !.steps = @ + 1]
  /\ UNCHANGED <<rf, menu, lit, suite>>

\* The loop condition fails: the generator is exhausted.
IterDone ==
  /\ scan.pc = "loop"
  /\ scan.i >= Len(scan.text)
  /\ scan' = [scan EXCEPT !.pc = "done"]
  /\ UNCHANGED <<rf, menu, lit, suite>>

\* One of the scanners is called on a text: iter_forms, or find_component_form
\* or skip_ws_and_comments at offset 0, or skip_block_comment at a `(;`.
CallScanner ==
  /\ scan.pc = "idle"
  /\ \E t \in LexTexts :
       \E fn \in {"iter_forms", "find_component_form", "skip_ws_and_comments",
                  "skip_block_comment"} :
         /\ fn = "skip_block_comment" => (Len(t) >= 2 /\ t[1] = "(" /\ t[2] = ";")
         /\ scan' = IF fn = "iter_forms" THEN iter_forms_init(t) ELSE lex_init(fn, t, 0)
  /\ UNCHANGED <<rf, menu, lit, suite>>

\* extract_form is called at the offset where a form that iter_forms yielded
\* starts.
CallExtract ==
  /\ scan.pc = "done"
  /\ \E j \in 1..Len(scan.out) :
       scan' = lex_init("extract_form", scan.text, scan.out[j].start)
  /\ UNCHANGED <<rf, menu, lit, suite>>

\* find_component_form is called on a form that iter_forms yielded, as the
\* assertion branches of run_file call it.
CallFind ==
  /\ scan.pc = "done"
  /\ \E j \in 1..Len(scan.out) :
       scan' = lex_init("find_component_form", scan.out[j].form, 0)
  /\ UNCHANGED <<rf, menu, lit, suite>>

\* parse_form is called on a form that iter_forms yielded, as the branches
\* of run_file call it.
ParseForm ==
  /\ scan.pc = "done"
  /\ \E j \in 1..Len(scan.out) :
       scan' = [lex_init("parse_form", scan.out[j].form, 0) EXCEPT
                  !.pc = "returned",
                  !.result = parse_sexpr_text(scan.out[j].form, 0)]
  /\ UNCHANGED <<rf, menu, lit, suite>>

\* find_component_form: the loop test and one iteration.
FindStep ==
  /\ scan.pc = "find_component_form"
  /\ scan' = find_component_form_step(scan)
  /\ UNCHANGED <<rf, menu, lit, suite>>

\* extract_form, called by find_component_form or on its own: the loop test
\* and one iteration.
ExtractStep ==
  /\ scan.pc = "extract_form"
  /\ scan' = extract_form_step(scan)
  /\ UNCHANGED <<rf, menu, lit, suite>>

\* skip_ws_and_comments: the loop test and one iteration.
SkipWsStep ==
  /\ scan.pc = "skip_ws_and_comments"
  /\ scan' = skip_ws_and_comments_step(scan)
  /\ UNCHANGED <<rf, menu, lit, suite>>

\* skip_block_comment: the loop test and one iteration.
SkipBlockStep ==
  /\ scan.pc = "skip_block_comment"
  /\ scan' = skip_block_comment_step(scan)
  /\ UNCHANGED <<rf, menu, lit, suite>>

\* The state s the loop body left, with what the form did added to the log
\* (s0 is the state before the form).
Made(s0, s, tool) == \E k \in (Len(s0.calls) + 1)..Len(s.calls) : s.calls[k].tool = tool
Logged(s0, s, form, ext) ==
  [s EXCEPT !.log = Append(@,
     [form |-> form, registry |-> s0.defined_components,
      compiled |-> Made(s0, s, "compile") /\ ext.compile.rc = 0,
      validated |-> Made(s0, s, "validate") /\ validate_component(ext.validate).ok,
      ncmd |-> Len(s.commands), ncalls |-> Len(s.calls),
      failed |-> s.failed, passed |-> s.passed,
      registry_after |-> s.defined_components,
      vout |-> IF Made(s0, s, "validate") THEN ext.validate ELSE NoOutput,
      rc |-> IF Made(s0, s, "run") THEN ext.run_rc ELSE -1,
      nfail |-> Len(s.failures)])]

\* One iteration of `for form in iter_forms(text)`.
RunForm ==
  /\ rf.pc = "forms"
  /\ rf.current_form_idx < MaxForms
  /\ \E form \in menu.forms, ext \in menu.answers :
       rf' = Logged(rf, run_file_body(rf, form, ext), form, ext)
  /\ UNCHANGED <<scan, menu, lit, suite>>

\* The file is exhausted and `commands` is not empty: one batch execution.
RunBatch ==
  /\ rf.pc = "forms"
  /\ rf.commands # <<>>
  /\ \E kind \in menu.batch :
       LET out == BatchOutput(kind, Len(rf.commands))
       IN rf' = [run_file_batch(rf, out) EXCEPT !.pc = "finally", !.batch_out = out]
  /\ UNCHANGED <<scan, menu, lit, suite>>

\* The file is exhausted and `commands` is empty.
NoBatch ==
  /\ rf.pc = "forms"
  /\ rf.commands = <<>>
  /\ rf' = [rf EXCEPT !.pc = "finally"]
  /\ UNCHANGED <<scan, menu, lit, suite>>

\* The finally block and the return statement.
Return ==
  /\ rf.pc = "finally"
  /\ rf' = run_file_return(rf)
  /\ UNCHANGED <<scan, menu, lit, suite>>

\* parse_string on each literal of the payload, as parse_sexpr calls it.
ParseString ==
  /\ lit.pc = "start"
  /\ LET rs == [k \in 1..Len(lit.texts) |-> parse_string(lit.texts[k], 0)]
         bad == {k \in 1..Len(rs) : rs[k].exc # ""}
     IN lit' = [lit EXCEPT
                  !.pc = IF bad # {} THEN "raised" ELSE "parsed",
                  !.exc = IF bad # {} THEN rs[CHOOSE k \in bad : \A j \in bad : k <= j].exc
                          ELSE "",
                  !.toks = rs]
  /\ UNCHANGED <<scan, rf, menu, suite>>

\* parse_module_binary on (module binary <literal> ...), every literal a
\* StringToken.
DecodeBytes ==
  /\ lit.pc = "parsed"
  /\ \A k \in 1..Len(lit.toks) : ~lit.toks[k].none
  /\ lit' = [lit EXCEPT
               !.pc = "decoded",
               !.data = parse_module_binary(
                          List(<<Atom("module"), Atom("binary")>>
                               \o [k \in 1..Len(lit.toks) |-> StringToken(lit.toks[k].value)]))]
  /\ UNCHANGED <<scan, rf, menu, suite>>

\* The finally block while an exception leaves run_file.
Unwind ==
  /\ rf.pc = "raised"
  /\ rf' = run_file_unwind(rf)
  /\ UNCHANGED <<scan, menu, lit, suite>>

\* main: the checks of the binary, the directory and the file list.
MainStart ==
  /\ suite.pc = "start"
  /\ suite' = main_start(suite)
  /\ UNCHANGED <<scan, rf, menu, lit>>

\* result = run_file(wast_file, wasmoon, keep_tmp_on_failure=...): the call.
MainCallRunFile ==
  /\ suite.pc = "loop"
  /\ suite.file < suite.nfiles
  /\ rf.pc = "idle"
  /\ rf' = main_call_run_file(suite)
  /\ suite' = [suite EXCEPT !.pc = "call"]
  /\ UNCHANGED <<scan, menu, lit>>

\* run_file returned: its counts are added to the totals.
MainCollect ==
  /\ suite.pc = "call"
  /\ rf.pc = "done"
  /\ suite' = [main_collect(suite, rf.result) EXCEPT !.seen = @ \cup rf.defined_components]
  /\ rf' = RunFileIdle
  /\ UNCHANGED <<scan, menu, lit>>

\* run_file was left by an exception.
MainUncaught ==
  /\ suite.pc = "call"
  /\ rf.pc = "crashed"
  /\ suite' = main_uncaught(suite)
  /\ UNCHANGED <<scan, rf, menu, lit>>

\* The loop is over: the summary and the return.
MainReturn ==
  /\ suite.pc = "loop"
  /\ suite.file = suite.nfiles
  /\ suite' = main_return(suite)
  /\ UNCHANGED <<scan, rf, menu, lit>>

InitString ==
  /\ scan = iter_forms_init(<<>>)
  /\ rf = run_file_init(FALSE)
  /\ menu = NoMenu
  /\ \E p \in Payloads : lit = [NoLiteral EXCEPT !.pc = "start", !.texts = p]
  /\ suite = NoSuite

NextString == ParseString \/ DecodeBytes

SpecString == InitString /\ [][NextString]_vars

InitScan ==
  /\ \E t \in Texts : scan = iter_forms_init(t)
  /\ rf = run_file_init(FALSE)
  /\ menu = NoMenu
  /\ lit = NoLiteral
  /\ suite = NoSuite

NextScan == IterStep \/ IterDone

SpecScan == InitScan /\ [][NextScan]_vars

\* iter_forms on the text of a file, then extract_form at the start of a form
\* it yielded, or find_component_form on a form it yielded.
InitForms ==
  /\ \E t \in FormTexts : scan = iter_forms_init(t)
  /\ rf = run_file_init(FALSE)
  /\ menu = NoMenu
  /\ lit = NoLiteral
  /\ suite = NoSuite

NextForms ==
  IterStep \/ IterDone \/ CallExtract \/ ExtractStep \/ CallFind \/ FindStep \/ ParseForm

SpecForms == InitForms /\ [][NextForms]_vars

\* No scanner has been called yet.
InitLex ==
  /\ scan = lex_init("idle", <<>>, 0)
  /\ rf = run_file_init(FALSE)
  /\ menu = NoMenu
  /\ lit = NoLiteral
  /\ suite = NoSuite

NextLex == CallScanner \/ IterStep \/ IterDone \/ FindStep \/ ExtractStep \/ SkipWsStep \/ SkipBlockStep

SpecLex == InitLex /\ [][NextLex]_vars

\* The same, with the scanner that was called running on: a Python loop does
\* not stop between two iterations.
SpecLexFair ==
  SpecLex /\ WF_vars(IterStep \/ IterDone \/ FindStep \/ ExtractStep \/ SkipWsStep \/ SkipBlockStep)

\* run_file is called on a file whose forms and whose tools' answers are
\* drawn from the menu m.
InitRunFile(m) ==
  /\ scan = iter_forms_init(<<>>)
  /\ rf = run_file_init(FALSE)
  /\ menu = m
  /\ lit = NoLiteral
  /\ suite = NoSuite

Next == RunForm \/ RunBatch \/ NoBatch \/ Return

Spec == InitRunFile(Menu.Registry) /\ [][Next]_vars

SpecInvoke == InitRunFile(Menu.Invoke) /\ [][Next]_vars

SpecAssert == InitRunFile(Menu.Asserts) /\ [][Next]_vars

\* main is called on a suite whose files draw their forms from the menu m.
InitMain(m) ==
  /\ scan = iter_forms_init(<<>>)
  /\ rf = RunFileIdle
  /\ menu = m
  /\ lit = NoLiteral
  /\ \E w \in BOOLEAN, d \in BOOLEAN, n \in 0..MaxFiles, keep \in BOOLEAN :
       suite = main_init(w, d, n, keep)

NextMain ==
  \/ MainStart \/ MainCallRunFile \/ MainCollect \/ MainUncaught \/ MainReturn
  \/ RunForm \/ RunBatch \/ NoBatch \/ Return \/ Unwind

SpecMain == InitMain(Menu.Main) /\ [][NextMain]_vars

SpecSuite == InitMain(Menu.Suite) /\ [][NextMain]_vars

SpecBatch == InitRunFile(Menu.Batch) /\ [][Next]_vars

NextRaise == RunForm \/ RunBatch \/ NoBatch \/ Return \/ Unwind

SpecRaise == InitRunFile(Menu.Raise) /\ [][NextRaise]_vars

SpecMessage == InitRunFile(Menu.Message) /\ [][NextRaise]_vars

SpecBinary == InitRunFile(Menu.Binary) /\ [][Next]_vars

SpecValidate == InitRunFile(Menu.Validate) /\ [][Next]_vars

SpecScript == InitRunFile(Menu.Script) /\ [][Next]_vars

SpecConst == InitRunFile(Menu.Const) /\ [][Next]_vars

SpecTools == InitRunFile(Menu.Tools) /\ [][Next]_vars

SpecMalformed == InitRunFile(Menu.Malformed) /\ [][Next]_vars

\* ------------------------------------------------------- scanner: claims

\* C1: for a text whose parentheses are balanced outside comments and
\* strings, iter_forms yields exactly the top-level parenthesized
\* expressions, in source order, each the exact substring from its '(' to
\* the matching ')'; the forms do not overlap, each lies in the text at its
\* own offset.
C1_FormsOfBalancedText ==
  (scan.pc = "done" /\ Balanced(RefMask(scan.text))) =>
    /\ scan.out = RefForms(scan.text)
    /\ \A j \in 1..Len(scan.out) :
         /\ Slice(scan.text, scan.out[j].start,
                  scan.out[j].start + Len(scan.out[j].form)) = scan.out[j].form
         /\ j < Len(scan.out) =>
              scan.out[j].start + Len(scan.out[j].form) <= scan.out[j + 1].start

\* A balanced text is scanned to the end and a yielded form holds a ')' that
\* lies inside a string literal or a comment.
C1_Witness ==
  /\ scan.pc = "done"
  /\ Balanced(RefMask(scan.text))
  /\ \E j \in 1..Len(scan.out) :
       \E p \in (scan.out[j].start + 1)..(scan.out[j].start + Len(scan.out[j].form)) :
         scan.text[p] = ")" /\ RefMask(scan.text)[p] = "-"

\* C2: the parenthesis-nesting depth counter of iter_forms is never negative,
\* also on text with unmatched ')'.
C2_DepthNeverNegative == scan.depth >= 0

\* C3: every yielded form is a maximal top-level form: its '(' is enclosed
\* by no earlier still-open '(' and it ends at the matching ')'.
C3_YieldedFormsAreTopLevel ==
  LET m == RefMask(scan.text) IN
  \A j \in 1..Len(scan.out) :
    LET p == scan.out[j].start + 1 IN
    /\ m[p] = "("
    /\ OpenDepth(m, p - 1) = 0
    /\ RefMatch(m, p) = p + Len(scan.out[j].form) - 1

\* ------------------------------------------------------ run_file: claims

\* What the forms are, read off their tokens (not through the parser).
LeadingAtom(f) == IF Len(f) >= 2 /\ f[2].k = "atom" THEN f[2].v ELSE PyNone
SecondAtom(f) == IF Len(f) >= 3 /\ f[3].k = "atom" THEN f[3].v ELSE PyNone
CommandAtoms ==
  {"component", "assert_invalid", "assert_malformed", "assert_unlinkable",
   "assert_return", "assert_trap", "invoke"}

IsTopComponent(f) == LeadingAtom(f) = "component" /\ SecondAtom(f) # "instance"
IsDefinition(f) == LeadingAtom(f) = "component" /\ SecondAtom(f) = "definition"
\* (component instance <atom> <atom> ...): the form names a component.
IsInstanceWithTarget(f) ==
  /\ LeadingAtom(f) = "component" /\ SecondAtom(f) = "instance"
  /\ Len(f) >= 5 /\ f[4].k = "atom" /\ f[5].k = "atom"
InstanceName(f) == f[4].v
InstanceTarget(f) == f[5].v
\* The name written in a top-level component form, if any.
ExplicitName(f) ==
  IF IsDefinition(f)
  THEN (IF Len(f) >= 4 /\ f[4].k = "atom" /\ f[4].v \in SigilAtoms THEN f[4].v ELSE PyNone)
  ELSE (IF Len(f) >= 3 /\ f[3].k = "atom" /\ f[3].v \in SigilAtoms THEN f[3].v ELSE PyNone)
IsAnonDefinition(f) == IsDefinition(f) /\ ExplicitName(f) = PyNone

\* The position of the invoke form inside an invoke-shaped form, or 0.
InvokeAt(f) ==
  IF LeadingAtom(f) = "invoke" THEN 1
  ELSE IF LeadingAtom(f) \in {"assert_return", "assert_trap"} /\ Len(f) >= 4
          /\ f[3].k = "lp" /\ f[4] = Atom("invoke") THEN 3
  ELSE 0
\* The instance name an invoke-shaped form refers to, if it writes one.
InvokeInstance(f) ==
  LET p == InvokeAt(f) IN
  IF p > 0 /\ Len(f) >= p + 2 /\ f[p + 2].k = "atom" /\ f[p + 2].v \in SigilAtoms
  THEN f[p + 2].v ELSE PyNone

\* The counts before the k-th form of the file.
Before(k) ==
  IF k = 1 THEN [ncmd |-> 0, ncalls |-> 0, failed |-> 0, passed |-> 0]
  ELSE [ncmd |-> rf.log[k - 1].ncmd, ncalls |-> rf.log[k - 1].ncalls,
        failed |-> rf.log[k - 1].failed, passed |-> rf.log[k - 1].passed]
Forms == 1..Len(rf.log)
AddedCommand(k) == rf.log[k].ncmd = Before(k).ncmd + 1
AddedNothing(k) == rf.log[k].ncmd = Before(k).ncmd
OneFailure(k) ==
  rf.log[k].failed = Before(k).failed + 1 /\ rf.log[k].passed = Before(k).passed
NoToolCall(k) == rf.log[k].ncalls = Before(k).ncalls
Succeeded(k) == rf.log[k].compiled /\ rf.log[k].validated
\* Anonymous definitions among the first k forms / those that went through.
\* The name the specification gives the Nth anonymous definition.
NthAnonymousName(n) == "$anon_def_" \o ToString(n)

AnonSeen(k) == Cardinality({j \in 1..k : IsAnonDefinition(rf.log[j].form)})
AnonDone(k) ==
  Cardinality({j \in 1..k : IsAnonDefinition(rf.log[j].form) /\ Succeeded(j)})

ResultSum == rf.result.passed + rf.result.failed + rf.result.skipped

\* C4 as claimed: passed+failed+skipped returned by run_file equals the
\* number of top-level forms of the file, whatever the tools answer.
C4_SumEqualsForms == rf.pc = "done" => ResultSum = rf.current_form_idx

\* C4 (amended): every form either adds one command to the RunScript or is
\* counted once on the harness side; the returned sum is the number of forms
\* that added no command plus, when the batch executor ran, the P+F+S of its
\* RESULT line, plus one when S is not zero, plus one when it printed no
\* RESULT line; skipped is returned as 0.
C4_SumAmended ==
  /\ rf.pc = "forms" =>
       rf.passed + rf.failed + Len(rf.commands) = rf.current_form_idx
  /\ rf.pc = "done" =>
       /\ rf.result.skipped = 0
       /\ IF rf.commands = <<>> THEN ResultSum = rf.current_form_idx
          ELSE LET r == run_component_script(rf.batch_out) IN
               ResultSum = (rf.current_form_idx - Len(rf.commands))
                           + r.passed + r.failed + r.skipped
                           + (IF r.skipped # 0 THEN 1 ELSE 0)
                           + (IF r.saw_result THEN 0 ELSE 1)

\* A file with harness-side results and a batch whose RESULT line accounts
\* for every command with none skipped: the sum is the number of forms.
C4_Witness ==
  /\ rf.pc = "done"
  /\ Len(rf.commands) >= 1
  /\ rf.current_form_idx > Len(rf.commands)
  /\ LET r == run_component_script(rf.batch_out) IN
       r.saw_result /\ r.skipped = 0 /\ r.failed = 1
  /\ ResultSum = rf.current_form_idx

\* C5 as claimed: the Nth anonymous definition form of the file is named
\* $anon_def_N, whether or not earlier anonymous definitions went through.
C5_NthAnonymousIsN ==
  \A k \in Forms :
    (IsAnonDefinition(rf.log[k].form) /\ AddedCommand(k)) =>
      rf.commands[rf.log[k].ncmd].name = NthAnonymousName(AnonSeen(k))

\* C5 (amended): the Nth anonymous definition that compiles and validates is
\* named $anon_def_N, whatever named definitions and failed definitions are
\* interleaved; one that fails gets no name and does not advance the counter.
C5_NthSuccessfulAnonymousIsN ==
  /\ rf.anon_def_count = AnonDone(Len(rf.log))
  /\ \A k \in Forms :
       IsAnonDefinition(rf.log[k].form) =>
         IF Succeeded(k)
         THEN /\ AddedCommand(k)
              /\ rf.commands[rf.log[k].ncmd].type = "component_definition"
              /\ rf.commands[rf.log[k].ncmd].name = NthAnonymousName(AnonDone(k))
         ELSE AddedNothing(k)

\* An anonymous definition fails, a named one goes through, and the next
\* anonymous one is registered.
C5_Witness ==
  /\ Len(rf.log) = 3
  /\ IsAnonDefinition(rf.log[1].form) /\ ~Succeeded(1)
  /\ rf.log[2].form = Form.DefinitionNamed /\ Succeeded(2)
  /\ IsAnonDefinition(rf.log[3].form) /\ Succeeded(3)
  /\ "$anon_def_1" \in rf.defined_components

DecodableInvokeForms == {Form.Invoke, Form.AssertReturn, Form.AssertTrapInvoke}

InstanceAccepted(k) == IsInstanceWithTarget(rf.log[k].form) /\ AddedCommand(k)

ComponentNames(k) ==
  {ExplicitName(rf.log[j].form) :
     j \in {i \in 1..k : IsTopComponent(rf.log[i].form) /\ Succeeded(i)}} \ {PyNone}

C9_RegistryHoldsValidatedComponents ==
  /\ \A name \in rf.defined_components :
       \E k \in Forms :
         /\ IsTopComponent(rf.log[k].form) /\ Succeeded(k)
         /\ \/ ExplicitName(rf.log[k].form) = name
            \/ IsAnonDefinition(rf.log[k].form) /\ name = NthAnonymousName(AnonDone(k))
  /\ \A k \in Forms :
       ~(IsTopComponent(rf.log[k].form) /\ Succeeded(k)) =>
         rf.log[k].registry_after = rf.log[k].registry

\* $a failed validation, the component $q nested in assert_invalid compiled
\* and validated, and $d went through: only $d is registered.
C9_Witness ==
  /\ Len(rf.log) = 3
  /\ rf.log[1].form = Form.ComponentNamed /\ rf.log[1].compiled /\ ~rf.log[1].validated
  /\ rf.log[2].form = Form.AssertInvalid /\ Succeeded(2)
  /\ rf.log[3].form = Form.DefinitionNamed /\ Succeeded(3)
  /\ rf.defined_components = {"$d"}

\* C10: a top-level form whose leading atom is none of the seven command
\* atoms (or that has no leading atom) adds exactly one to failed, and
\* nothing to passed or to the RunScript.
C10_UnknownFormFailsOnce ==
  \A k \in Forms :
    LeadingAtom(rf.log[k].form) \notin CommandAtoms =>
      OneFailure(k) /\ AddedNothing(k) /\ NoToolCall(k)

\* A file of three unrecognised forms: an unknown atom, a list where the
\* atom should be, and a string literal there.
C10_Witness ==
  /\ rf.pc = "done"
  /\ {rf.log[k].form : k \in Forms} = {Form.Unknown, Form.NoHead, Form.StringHead}
  /\ rf.result.failed = 3

\* ------------------------------------------------- string literals: claims

\* The value a hex digit denotes, and the byte a pair of them denotes.
DigitOf(c) ==
  CASE c = "0" -> 0 [] c = "1" -> 1 [] c = "2" -> 2 [] c = "3" -> 3 [] c = "4" -> 4
    [] c = "5" -> 5 [] c = "6" -> 6 [] c = "7" -> 7 [] c = "8" -> 8 [] c = "9" -> 9
    [] c \in {"a", "A"} -> 10 [] c \in {"b", "B"} -> 11 [] c \in {"c", "C"} -> 12
    [] c \in {"d", "D"} -> 13 [] c \in {"e", "E"} -> 14 [] c \in {"f", "F"} -> 15
PairByte(h, l) == 16 * DigitOf(h) + DigitOf(l)

HexDigitChars ==
  {"0", "1", "2", "3", "4", "5", "6", "7", "8", "9",
   "a", "b", "c", "d", "e", "f", "A", "B", "C", "D", "E", "F"}

\* The literal is written only with \XX escapes: "\XX\XX...".
OnlyHexEscapes(t) ==
  /\ Len(t) >= 5 /\ (Len(t) - 2) % 3 = 0
  /\ t[1] = "\"" /\ t[Len(t)] = "\""
  /\ \A k \in 1..((Len(t) - 2) \div 3) :
       t[3 * k - 1] = "\\" /\ t[3 * k] \in HexDigitChars /\ t[3 * k + 1] \in HexDigitChars
\* The bytes such a literal is meant to hold.
IntendedBytes(t) == [k \in 1..((Len(t) - 2) \div 3) |-> PairByte(t[3 * k], t[3 * k + 1])]
RECURSIVE IntendedPayload(_)
IntendedPayload(ts) ==
  IF Len(ts) = 0 THEN <<>> ELSE IntendedBytes(ts[1]) \o IntendedPayload(Tail(ts))

\* C12: parse_string turns every escape \XX (hex digits of either case)
\* into one character, decode_wat_bytes turns it into the one byte of value
\* XX, and a (module binary ...) payload written only with \XX escapes
\* becomes exactly the intended byte sequence; nothing is raised.
C12_HexEscapeIsOneByte ==
  (\A k \in 1..Len(lit.texts) : OnlyHexEscapes(lit.texts[k])) =>
    /\ lit.pc # "raised"
    /\ lit.pc \in {"parsed", "decoded"} =>
         \A k \in 1..Len(lit.texts) :
           /\ ~lit.toks[k].none
           /\ Len(lit.toks[k].value) = (Len(lit.texts[k]) - 2) \div 3
           /\ lit.toks[k].i = Len(lit.texts[k])
    /\ lit.pc = "decoded" =>
         /\ lit.data.ok
         /\ lit.data.data = IntendedPayload(lit.texts)

\* A payload of two literals, "\80" and "\fF", is decoded to its two bytes.
C12_Witness ==
  /\ lit.pc = "decoded"
  /\ lit.texts = << <<"\"", "\\", "8", "0", "\"">>, <<"\"", "\\", "f", "F", "\"">> >>
  /\ lit.data.ok
  /\ lit.data.data = <<128, 255>>

\* ------------------------------------------------- run_file: more claims

\* Form k was classified: it added one command and no count, or it added no
\* command and was counted once, as a pass or as a failure.
HarnessPass(k) ==
  rf.log[k].passed = Before(k).passed + 1 /\ rf.log[k].failed = Before(k).failed
Classified(k) ==
  \/ /\ AddedCommand(k)
     /\ rf.log[k].passed = Before(k).passed /\ rf.log[k].failed = Before(k).failed
  \/ AddedNothing(k) /\ (OneFailure(k) \/ HarnessPass(k))

\* C11: a failure is local to its command: once a form has ended in a
\* failure, every later form the file holds is still classified and run_file
\* is not left before the forms are exhausted.
C11_FailureIsLocal ==
  \A j \in Forms :
    OneFailure(j) =>
      /\ \A k \in (j + 1)..Len(rf.log) : Classified(k)
      /\ rf.pc \notin {"raised", "crashed"}

\* The batch executor ran and its output holds the line
\* RESULT passed=p failed=f skipped=k.
BatchReported(p, f, k) ==
  \E i \in 1..Len(rf.batch_out.lines) :
    /\ rf.batch_out.lines[i].kind = "RESULT"
    /\ rf.batch_out.lines[i].parts =
         <<[key |-> "passed", val |-> p], [key |-> "failed", val |-> f],
           [key |-> "skipped", val |-> k]>>

\* run_file returned for a file of one top-level component form that
\* compiled and validated.
OneValidComponent ==
  /\ rf.pc = "done"
  /\ Len(rf.log) = 1
  /\ IsTopComponent(rf.log[1].form)
  /\ Succeeded(1)

\* C13 as claimed: one valid component form, compiler and validator both
\* succeed: run_file reports passed=1, failed=0, skipped=0.
C13_OneComponentPasses ==
  OneValidComponent =>
    rf.result.passed = 1 /\ rf.result.failed = 0 /\ rf.result.skipped = 0

\* C13 (amended): the form itself is counted by nobody in the harness: it
\* becomes the one command of the RunScript, the batch executor is called
\* once after the compiler and the validator, and the file reports
\* passed=1, failed=0, skipped=0 exactly when the executor's RESULT line
\* says passed=1 failed=0 skipped=0; otherwise the file reports a failure.
C13_OneComponentPassesWithBatch ==
  OneValidComponent =>
    /\ Len(rf.commands) = 1 /\ rf.commands[1].type \in {"component", "component_definition"}
    /\ rf.log[1].passed = 0 /\ rf.log[1].failed = 0
    /\ [k \in 1..Len(rf.calls) |-> rf.calls[k].tool] = <<"compile", "validate", "component-test">>
    /\ rf.result.skipped = 0
    /\ BatchReported(1, 0, 0) => rf.result.passed = 1 /\ rf.result.failed = 0
    /\ ~BatchReported(1, 0, 0) => rf.result.passed = 0 /\ rf.result.failed >= 1

\* One component form went through the compiler, the validator and the
\* batch executor, which reported it passed.
C13_Witness ==
  /\ OneValidComponent
  /\ BatchReported(1, 0, 0)
  /\ rf.result = [passed |-> 1, failed |-> 0, skipped |-> 0, failures |-> <<>>]

\* (assert_invalid (component ...) "msg"): the form has a nested component
\* and a trailing string literal.
IsAssertInvalid(f) ==
  /\ LeadingAtom(f) = "assert_invalid"
  /\ Len(f) >= 4 /\ f[3].k = "lp" /\ f[4] = [k |-> "atom", v |-> "component"]
AssertMessage(f) ==
  IF f[Len(f) - 1].k = "str" THEN f[Len(f) - 1].v ELSE ""

\* Form k is an assert_invalid whose component compiled and went to the
\* validator.
AssertInvalidValidated(k) ==
  IsAssertInvalid(rf.log[k].form) /\ rf.log[k].compiled /\ rf.log[k].vout.text # "<None>"

UnsupportedMarkers ==
  {"unsupported component type opcode", "unsupported canon opcode",
   "unsupported component preamble", "unsupported string encoding",
   "unsupportedstringencoding", "unsupportedcomponent"}

\* C14 as claimed: an assert_invalid whose component compiles and whose
\* validator output contains "validate component error" is counted as
\* passed, for every such output.
C14_RejectedIsPassed ==
  \A k \in Forms :
    (AssertInvalidValidated(k) /\ "validate component error" \in rf.log[k].vout.has) =>
      HarnessPass(k) /\ AddedNothing(k)

\* C14 (amended): such a form is counted as passed when the output,
\* lower-cased, contains none of the unsupported-feature substrings; when it
\* contains one, the form is one failure ("failed due to unsupported
\* feature") and passed is unchanged.  Either way no command is added.
C14_RejectedForAReasonIsPassed ==
  \A k \in Forms :
    (AssertInvalidValidated(k) /\ "validate component error" \in rf.log[k].vout.has) =>
      /\ AddedNothing(k)
      /\ IF rf.log[k].vout.lower \cap UnsupportedMarkers = {}
         THEN HarnessPass(k) /\ rf.log[k].nfail = (IF k = 1 THEN 0 ELSE rf.log[k - 1].nfail)
         ELSE /\ OneFailure(k)
              /\ rf.failures[rf.log[k].nfail] =
                   "#" \o ToString(k) \o " assert_invalid: assert_invalid failed due to "
                     \o "unsupported feature: " \o rf.log[k].vout.text

\* An assert_invalid was rejected for a reason and passed, another was
\* rejected for an unsupported feature and failed.
C14_Witness ==
  \E j, k \in Forms :
    /\ AssertInvalidValidated(j) /\ "validate component error" \in rf.log[j].vout.has
    /\ rf.log[j].vout.lower \cap UnsupportedMarkers = {} /\ HarnessPass(j)
    /\ AssertInvalidValidated(k) /\ "validate component error" \in rf.log[k].vout.has
    /\ rf.log[k].vout.lower \cap UnsupportedMarkers # {} /\ OneFailure(k)

\* The validator reported "component validated ok" (and no error marker).
ReportedValid(k) ==
  /\ "component validated ok" \in rf.log[k].vout.has
  /\ "validate component error" \notin rf.log[k].vout.has
  /\ "parse component error" \notin rf.log[k].vout.has

\* The number of failure descriptions recorded before form k.
FailuresBefore(k) == IF k = 1 THEN 0 ELSE rf.log[k - 1].nfail

C16_ExitZeroIffNoFailure ==
  suite.pc = "exited" =>
    /\ suite.exit_code \in {0, 1}
    /\ suite.exit_code = 0 <=> suite.total_failed = 0

\* C16 (amended): the exit code is 0 exactly when the wasmoon binary and the
\* test directory exist, at least one .wast file was found, every run_file
\* call returned, and the failed counts of the files sum to zero; it is 1
\* otherwise: a missing binary or directory, an empty suite, a failed
\* command, or an exception that left run_file.
C16_ExitZeroIffRanClean ==
  suite.pc = "exited" =>
    /\ suite.exit_code \in {0, 1}
    /\ suite.exit_code = 0 <=>
         /\ suite.wasmoon_exists /\ suite.dir_exists /\ suite.nfiles > 0
         /\ ~suite.traceback
         /\ suite.file = suite.nfiles
         /\ suite.total_failed = 0
    /\ (suite.wasmoon_exists /\ suite.dir_exists /\ suite.nfiles > 0 /\ ~suite.traceback) =>
         /\ suite.file = suite.nfiles
         /\ suite.files_ok + suite.files_failed = suite.nfiles
         /\ suite.files_failed = 0 <=> suite.total_failed = 0

\* Two files ran, a command passed and none failed: exit code 0.
C16_Witness ==
  /\ suite.pc = "exited"
  /\ suite.file = 2 /\ suite.files_ok = 2
  /\ suite.total_passed > 0 /\ suite.total_failed = 0
  /\ suite.exit_code = 0

\* ---------------------------------------------------- run_file: the batch

\* The calls of the batch executor among the external calls of the file.
BatchCalls == {k \in 1..Len(rf.calls) : rf.calls[k].tool = "component-test"}

\* run_file is over: it returned or an exception left it.
RunFileOver == rf.pc \in {"finally", "done", "raised", "crashed"}

\* C17: per file the batch executor is invoked at most once, after every
\* form was classified and every other external call returned; exactly once
\* when a command was accumulated and never when none was; no two external
\* calls are in progress at the same time.
C17_BatchOnceAtEnd ==
  /\ Cardinality(BatchCalls) <= 1
  /\ \A k \in BatchCalls :
       /\ k = Len(rf.calls)
       /\ rf.pc \notin {"forms", "idle"}
       /\ rf.calls[k].form = Len(rf.log)
       /\ \A j \in Forms : Classified(j)
  /\ \A k \in 1..Len(rf.calls) : rf.calls[k].returned
  /\ RunFileOver => (Cardinality(BatchCalls) = 1 <=> rf.commands # <<>>)

\* The type of the command a form of this shape becomes when it becomes one.
CommandTypes(f) ==
  IF LeadingAtom(f) = "component" THEN
    IF SecondAtom(f) = "instance" THEN {"component_instance"}
    ELSE IF SecondAtom(f) = "definition" THEN {"component_definition"}
    ELSE {"component"}
  ELSE IF LeadingAtom(f) = "assert_trap" THEN {"assert_trap", "assert_unlinkable"}
  ELSE IF LeadingAtom(f) \in {"invoke", "assert_return", "assert_unlinkable"}
  THEN {LeadingAtom(f)}
  ELSE {}

\* C18: the commands of the submitted RunScript are in the source order of
\* their forms: each form adds at most one command, the command a form adds
\* stands in the script at the number of commands added up to that form, and
\* a form counted on the harness side (a failure or a pass) adds none.
C18_ScriptInSourceOrder ==
  /\ \A k \in Forms :
       /\ AddedCommand(k) \/ AddedNothing(k)
       /\ (OneFailure(k) \/ HarnessPass(k)) => AddedNothing(k)
       /\ AddedCommand(k) => rf.commands[rf.log[k].ncmd].type \in CommandTypes(rf.log[k].form)
  /\ BatchCalls # {} =>
       /\ Len(rf.script) = Cardinality({k \in Forms : AddedCommand(k)})
       /\ \A k \in Forms :
            AddedCommand(k) => rf.script[rf.log[k].ncmd].type \in CommandTypes(rf.log[k].form)
       /\ \A j, k \in Forms :
            (j < k /\ AddedCommand(j) /\ AddedCommand(k)) => rf.log[j].ncmd < rf.log[k].ncmd

\* A script of two commands of different types was submitted, a failing
\* form standing between their forms.
C18_Witness ==
  /\ BatchCalls # {}
  /\ Len(rf.log) = 3
  /\ LeadingAtom(rf.log[1].form) = "assert_return" /\ AddedCommand(1)
  /\ OneFailure(2) /\ AddedNothing(2)
  /\ LeadingAtom(rf.log[3].form) = "invoke" /\ AddedCommand(3)
  /\ rf.script[1].type = "assert_return" /\ rf.script[2].type = "invoke"

\* The lines of the batch executor's output, by kind.
ResultLines == {i \in 1..Len(rf.batch_out.lines) : rf.batch_out.lines[i].kind = "RESULT"}
FailLines == {i \in 1..Len(rf.batch_out.lines) : rf.batch_out.lines[i].kind = "FAIL"}

\* The batch executor ran and run_file has merged its answer.
BatchMerged == BatchCalls # {} /\ rf.pc \in {"finally", "done"}

\* The counts and the number of descriptions when the last form was done.
AtBatch == rf.log[Len(rf.log)]

\* The description fail() gives a batch without RESULT line.
NoResultDescription ==
  "#" \o ToString(Len(rf.log)) \o " " \o rf.current_cmd \o ": component-test failed: "
    \o rf.batch_out.raw

\* C19 as claimed: without a RESULT line the whole batch is exactly one
\* failure, passed is unchanged, and the recorded description carries the
\* raw output, whatever the number of commands and of FAIL lines.
C19_NoResultIsOneFailure ==
  (BatchMerged /\ ResultLines = {}) =>
    /\ rf.failed = AtBatch.failed + 1
    /\ rf.passed = AtBatch.passed
    /\ \E i \in 1..Len(rf.failures) : rf.failures[i] = NoResultDescription

\* C19 (amended): without a RESULT line the whole batch is exactly one
\* failure and passed is unchanged, whatever the number of commands and of
\* FAIL lines; the details of the FAIL lines are appended to the failure
\* list, and the description carrying the raw output is recorded after them
\* only if the list then holds fewer than 50 entries.
C19_NoResultIsOneFailureCapped ==
  (BatchMerged /\ ResultLines = {}) =>
    /\ rf.failed = AtBatch.failed + 1
    /\ rf.passed = AtBatch.passed
    /\ LET n == AtBatch.nfail + Cardinality(FailLines) IN
       IF n < 50
       THEN Len(rf.failures) = n + 1 /\ rf.failures[n + 1] = NoResultDescription
       ELSE Len(rf.failures) = n
            /\ \A i \in 1..Len(rf.failures) : rf.failures[i] # NoResultDescription

\* Two commands, two FAIL lines and no RESULT line: one failure, whose
\* description carries the raw output.
C19_Witness ==
  /\ BatchMerged /\ ResultLines = {}
  /\ Len(rf.commands) = 2 /\ Cardinality(FailLines) = 2
  /\ rf.failed = 1 /\ rf.passed = 0
  /\ rf.failures = <<"a", "b", NoResultDescription>>

\* The counts of the RESULT line (the inputs hold at most one, with its
\* three parts in the order passed, failed, skipped).
Reported ==
  LET ln == rf.batch_out.lines[CHOOSE i \in ResultLines : TRUE]
  IN [passed |-> ln.parts[1].val, failed |-> ln.parts[2].val, skipped |-> ln.parts[3].val]

C21_FailuresCapped ==
  /\ Len(rf.failures) <= FailureCap
  /\ Len(rf.result.failures) <= FailureCap

\* ------------------------------------------------------------ suite: claims

\* The tools' answers the k-th form of the running file was given, as far as
\* it used them.
AnswersOf(e) ==
  [compile |-> IF e.compiled THEN Compiler.Ok ELSE Compiler.Fail,
   validate |-> e.vout, run_rc |-> 1]

\* run_file on the forms and answers of `log` and the batch output `out`,
\* started on the state s: the run of the same file with nothing before it
\* when s is the state run_file initialises.
RECURSIVE Rerun(_, _, _, _)
Rerun(s, log, k, out) ==
  IF s.pc = "raised" THEN run_file_unwind(s)
  ELSE IF k > Len(log) THEN
    run_file_return(IF s.commands # <<>>
                    THEN [run_file_batch(s, out) EXCEPT !.batch_out = out]
                    ELSE s)
  ELSE Rerun(Logged(s, run_file_body(s, log[k].form, AnswersOf(log[k])),
                    log[k].form, AnswersOf(log[k])),
             log, k + 1, out)

\* main has called run_file on a file.
InFile == suite.pc = "call" /\ rf.pc # "idle"

FileOver == InFile /\ rf.pc \in {"done", "crashed"}

\* C23 as claimed: when the processing of a file is over, on every exit
\* path, the scratch directory is removed whenever the debug-retention flag
\* is not set and retained whenever it is set.
C23_RemovedUnlessFlag ==
  FileOver => (rf.tmp_exists <=> rf.keep_tmp_on_failure)

\* C23 (amended): the scratch directory exists while the file is processed;
\* when processing is over, by a return or by an exception, it is retained
\* exactly when the debug-retention flag is set and the file has at least
\* one failed command at that point, and removed otherwise.
C23_RetainedOnFlagAndFailure ==
  /\ (InFile /\ ~FileOver) => rf.tmp_exists
  /\ FileOver => (rf.tmp_exists <=> (rf.keep_tmp_on_failure /\ rf.failed > 0))

\* An exception leaves run_file: without the flag the directory is removed;
\* with the flag and one failure before the exception it is retained.
C23_Witness ==
  /\ InFile /\ rf.pc = "crashed" /\ rf.failed = 1
  /\ rf.keep_tmp_on_failure /\ rf.tmp_exists

\* ------------------------------------------ run_file: the expected message

\* A form without its trailing string literal, if it ends in one.
StripMessage(f) ==
  IF Len(f) >= 2 /\ f[Len(f) - 1].k = "str" THEN SubSeq(f, 1, Len(f) - 2) \o <<RP>> ELSE f

\* Forms j and k of the file are the same assert_invalid or assert_malformed
\* form up to the trailing string, and were given the same answers.
SameButMessage(j, k) ==
  /\ LeadingAtom(rf.log[j].form) \in {"assert_invalid", "assert_malformed"}
  /\ StripMessage(rf.log[j].form) = StripMessage(rf.log[k].form)
  /\ rf.log[j].compiled = rf.log[k].compiled
  /\ rf.log[j].vout = rf.log[k].vout
  /\ rf.log[j].rc = rf.log[k].rc

\* What form k added to passed, to failed and to the commands.
Effect(k) ==
  [passed |-> rf.log[k].passed - Before(k).passed,
   failed |-> rf.log[k].failed - Before(k).failed,
   ncmd |-> rf.log[k].ncmd - Before(k).ncmd]

\* C24: for assert_invalid and assert_malformed the outcome does not depend
\* on the trailing expected-message string: two runs of the same form that
\* differ only in that string, or in its presence, under the same answers
\* of the tools, change passed and failed identically, and both are
\* classified (neither ends run_file).
C24_MessageIsInert ==
  \A j \in Forms, k \in Forms :
    SameButMessage(j, k) =>
      /\ Effect(j) = Effect(k)
      /\ (k = Len(rf.log) /\ rf.pc = "raised") => (j = Len(rf.log))

\* --------------------------------------------------- the validator's output

\* The three fixed markers.
OkMarker == "component validated ok"
ErrorMarkers == {"validate component error", "parse component error"}

\* The output holds the ok marker and no error marker.
MarkedValid(out) == OkMarker \in out.has /\ out.has \cap ErrorMarkers = {}

\* Form k went to the validator.
Validated(k) == rf.log[k].vout # NoOutput

\* The failure form k recorded, when it recorded one.
FailureOf(k) == rf.failures[rf.log[k].nfail]

\* C25: validate_component reports validated-ok if and only if the output
\* contains "component validated ok" and neither "validate component error"
\* nor "parse component error"; every other output (an error marker, both
\* kinds of marker, no marker) is not validated, whatever the exit code: a
\* component is accepted (queued and registered) exactly on such an output
\* and fails with "component validate failed" otherwise, and an
\* assert_invalid fails as unexpectedly validated exactly on such an output.
C25_ValidatedIffOkMarkerOnly ==
  \A k \in Forms :
    Validated(k) =>
      /\ LeadingAtom(rf.log[k].form) = "component" =>
           IF MarkedValid(rf.log[k].vout)
           THEN AddedCommand(k) /\ Effect(k).failed = 0
                /\ "$a" \in rf.log[k].registry_after
           ELSE AddedNothing(k) /\ Effect(k).failed = 1
                /\ rf.log[k].registry_after = rf.log[k].registry
                /\ FailureOf(k) = "#" \o ToString(k) \o " component: component validate failed: "
                     \o (IF rf.log[k].vout.text # "" THEN rf.log[k].vout.text
                         ELSE "unknown validation result")
      /\ LeadingAtom(rf.log[k].form) = "assert_invalid" =>
           IF MarkedValid(rf.log[k].vout)
           THEN Effect(k) = [passed |-> 0, failed |-> 1, ncmd |-> 0]
                /\ FailureOf(k) = "#" \o ToString(k)
                     \o " assert_invalid: assert_invalid unexpectedly validated: msg"
           ELSE Effect(k) = [passed |-> 1, failed |-> 0, ncmd |-> 0]

\* One file shows the three cases: the ok marker with exit code 1 is
\* validated, an error marker with exit code 0 is not, and the ok marker
\* followed by "parse component error" is not.
C25_Witness ==
  /\ Len(rf.log) = 3
  /\ \A k \in 1..3 : rf.log[k].form = Form.ComponentNamed /\ Validated(k)
  /\ rf.log[1].vout = Validator.OkExitOne /\ AddedCommand(1)
  /\ rf.log[2].vout = Validator.ErrorExitZero /\ AddedNothing(2) /\ Effect(2).failed = 1
  /\ rf.log[3].vout = Validator.OkThenParseError /\ AddedNothing(3) /\ Effect(3).failed = 1

\* ----------------------------------------------- run_file: module binary

\* The form is an assertion of one of the four kinds around
\* `(module binary ...)`.
IsBinaryAssertion(f) ==
  /\ LeadingAtom(f) \in {"assert_invalid", "assert_malformed", "assert_unlinkable", "assert_trap"}
  /\ Len(f) >= 5
  /\ f[3] = LP /\ f[4] = Atom("module") /\ f[5] = Atom("binary")

\* The tools form k called, in order.
ToolsOf(k) ==
  [i \in 1..(rf.log[k].ncalls - Before(k).ncalls) |-> rf.calls[Before(k).ncalls + i].tool]

\* C26: in every assertion kind (assert_invalid, assert_malformed,
\* assert_unlinkable, assert_trap) an inner `(module binary "...")` is
\* routed to the module runner and to no other tool, and the assertion
\* passes exactly when the runner exits nonzero.
C26_ModuleBinaryGoesToRunner ==
  \A k \in Forms :
    IsBinaryAssertion(rf.log[k].form) =>
      /\ ToolsOf(k) = <<"run">>
      /\ Effect(k) = IF rf.log[k].rc # 0
                     THEN [passed |-> 1, failed |-> 0, ncmd |-> 0]
                     ELSE [passed |-> 0, failed |-> 1, ncmd |-> 0]

\* --------------------------------------------------- the serialized script

\* The fields that hold a list, and the field that holds a boolean; every
\* other field holds a string or None.
ListFields == {"args", "expected"}
BoolFields == {"instantiate"}

\* The value of field f is null, an empty list or an empty string.
IsNull(f, v) == f \notin ListFields \cup BoolFields /\ v = PyNone
IsEmpty(f, v) ==
  IF f \in ListFields THEN v = <<>>
  ELSE IF f \in BoolFields THEN FALSE
  ELSE v \in {PyNone, ""}

\* The batch executor was given its input.
Serialized == rf.script # <<>>

\* C27 as claimed: no serialized command contains a field whose value is
\* null, an empty list or an empty string.
C27_OnlyNonEmptyFields ==
  Serialized =>
    \A k \in 1..Len(rf.script) : \A f \in DOMAIN rf.script[k] :
      ~IsEmpty(f, rf.script[k][f])

\* C27 (amended): the serialized input holds the queued commands in order,
\* each with exactly its fields whose value is not null, unchanged: null
\* fields are left out, while empty lists (no arguments, no expected values)
\* and empty strings (an empty field name or trap text) are kept.
C27_OnlyNullFieldsDropped ==
  Serialized =>
    /\ Len(rf.script) = Len(rf.commands)
    /\ \A k \in 1..Len(rf.script) :
         /\ DOMAIN rf.script[k] =
              {f \in DOMAIN rf.commands[k] : ~IsNull(f, rf.commands[k][f])}
         /\ \A f \in DOMAIN rf.script[k] : rf.script[k][f] = rf.commands[k][f]

\* The script holds an assert_trap whose null instance was dropped and whose
\* empty argument list and empty text were kept, and an unnamed component
\* whose null name was dropped.
C27_Witness ==
  /\ Serialized
  /\ \E k \in 1..Len(rf.script) :
       /\ rf.commands[k].type = "assert_trap" /\ rf.commands[k].instance = PyNone
       /\ DOMAIN rf.script[k] = {"type", "field", "args", "text"}
       /\ rf.script[k].args = <<>> /\ rf.script[k].text = ""
  /\ \E k \in 1..Len(rf.script) :
       /\ rf.commands[k].type = "component" /\ rf.commands[k].name = PyNone
       /\ "name" \notin DOMAIN rf.script[k]

\* ------------------------------------------- scanners: what is structural

\* The scanner running is iter_forms / has entered extract_form.
InIterForms == scan.pc \in {"loop", "done"}
InExtractForm ==
  scan.pc = "extract_form" \/ (scan.pc = "returned" /\ scan.fn = "find_component_form"
                                /\ scan.i < Len(scan.text))

\* Position p (1-based) of the text is a parenthesis outside every string
\* literal and comment.
Structural(p, paren) == RefMask(scan.text)[p] = paren

\* C28: in iter_forms, extract_form and find_component_form a parenthesis or
\* comment opener inside a string literal, and any character inside a line
\* or block comment, never changes the nesting depth and never starts or
\* ends a form: the depth is at every moment the number of '(' minus the
\* number of ')' scanned so far outside strings and comments, and a form
\* starts at such a '(' and ends at such a ')'.
C28_OnlyStructuralParensCount ==
  /\ InIterForms =>
       /\ scan.depth = RefDepth(RefMask(scan.text), scan.i)
       /\ scan.start # NoStart => Structural(scan.start + 1, "(")
       /\ \A j \in 1..Len(scan.out) :
            /\ Structural(scan.out[j].start + 1, "(")
            /\ Structural(scan.out[j].start + Len(scan.out[j].form), ")")
  /\ InExtractForm =>
       /\ Structural(scan.start + 1, "(")
       /\ scan.depth = RefDepth(RefMask(scan.text), scan.i + (IF scan.pc = "returned" THEN 1 ELSE 0))
                        - RefDepth(RefMask(scan.text), scan.start)
       /\ scan.result # NoForm =>
            /\ scan.result = Slice(scan.text, scan.start, scan.start + Len(scan.result))
            /\ Structural(scan.start + Len(scan.result), ")")

\* find_component_form returned a form that holds a string literal with a
\* '(' and a ')' in it: neither changed the depth or ended the form.
C28_Witness ==
  /\ scan.pc = "returned" /\ scan.fn = "find_component_form"
  /\ scan.result # NoForm
  /\ \E p \in (scan.start + 1)..(scan.start + Len(scan.result)) :
       /\ scan.text[p] = "\""
       /\ \E q \in (p + 1)..(scan.start + Len(scan.result)) :
            scan.text[q] = "(" /\ Structural(q, "-")
       /\ \E q \in (p + 1)..(scan.start + Len(scan.result)) :
            scan.text[q] = ")" /\ Structural(q, "-")

\* -------------------------------------- iter_forms: text that never closes

\* After the first k characters of t the scan is outside every string
\* literal and comment: a parenthesis put there would be structural.
TopAfter(t, k) == RefMask(SubSeq(t, 1, k) \o <<"(">>)[k + 1] = "("

\* A string literal or a block comment opens at offset q and is never
\* closed.
UnterminatedAt(t, q) ==
  /\ q < Len(t)
  /\ TopAfter(t, q)
  /\ \/ At(t, q) = "\"" /\ \A r \in (q + 1)..Len(t) : ~TopAfter(t, r)
     \/ /\ At(t, q) = "(" /\ q + 1 < Len(t) /\ At(t, q + 1) = ";"
        /\ \A r \in (q + 2)..Len(t) : ~TopAfter(t, r)

\* C29: when a string literal or a block comment is opened and never
\* closed, iter_forms reaches the end of the input (no error), and no form
\* it yields starts or ends at or after the opening position; the forms
\* completed before that position are yielded (for a balanced text before
\* it, exactly its top-level forms); a text with no parenthesis outside
\* strings and comments yields the empty sequence.
C29_UnterminatedConsumesRest ==
  scan.pc = "done" =>
    /\ scan.i = Len(scan.text)
    /\ \A q \in 0..(Len(scan.text) - 1) :
         UnterminatedAt(scan.text, q) =>
           /\ \A j \in 1..Len(scan.out) :
                scan.out[j].start + Len(scan.out[j].form) <= q
           /\ Balanced(RefMask(SubSeq(scan.text, 1, q))) =>
                scan.out = RefForms(SubSeq(scan.text, 1, q))
    /\ (\A p \in 1..Len(scan.text) : RefMask(scan.text)[p] # "(") => scan.out = <<>>

\* The text `()"()`: the form before the unterminated string is yielded, the
\* parentheses after the quote are not.
C29_Witness ==
  /\ scan.pc = "done"
  /\ scan.text = <<"(", ")", "\"", "(", ")">>
  /\ UnterminatedAt(scan.text, 2)
  /\ scan.out = <<[start |-> 0, form |-> <<"(", ")">>]>>

\* ------------------------------------------------------ scanners: progress

\* A scanner has been called / has returned.
Called == scan.pc # "idle"
Returned == scan.pc \in {"done", "returned"}

\* The offset the running loop started at.
LoopStart ==
  IF scan.pc = "extract_form" THEN scan.start
  ELSE IF scan.pc = "skip_block_comment" THEN 2
  ELSE 0

\* Each iteration so far advanced the offset by one character at least, and
\* the offset is inside the text or at its end.
C30_StepsBounded ==
  /\ scan.i <= Len(scan.text)
  /\ scan.steps <= Len(scan.text)
  /\ (Called /\ ~Returned) => scan.steps <= scan.i - LoopStart
  /\ scan.pc = "done" =>
       /\ scan.i = Len(scan.text)
       /\ \/ scan.depth = 0
          \/ \A j \in 1..Len(scan.out) :
               scan.out[j].start + Len(scan.out[j].form)
                 <= (IF scan.start # NoStart THEN scan.start ELSE Len(scan.text))

\* An iteration moves the offset forward or leaves the loop (a return, or
\* find_component_form's call of extract_form).
C30_StepAdvances == scan'.i > scan.i \/ scan'.pc # scan.pc

\* C30: scanning always terminates: every step of iter_forms, extract_form,
\* find_component_form, skip_ws_and_comments and skip_block_comment strictly
\* advances the position or leaves the loop, a loop runs at most len(text)
\* iterations, every scanner returns, and iter_forms ends at the end of the
\* input with depth zero or with the unbalanced rest consumed without a
\* form.
C30_ScanningTerminates ==
  /\ []C30_StepsBounded
  /\ [][C30_StepAdvances]_vars
  /\ Called ~> Returned

\* iter_forms has consumed `()(` and the like: one iteration per character,
\* a form yielded, and the last '(' still open at the end.
C30_Witness ==
  /\ scan.pc = "done"
  /\ scan.steps = Len(scan.text) /\ Len(scan.text) >= 3
  /\ scan.depth > 0 /\ scan.out # <<>>

\* ------------------------------------------------------------------ C31

\* The character a one-character escape stands for, as the statement lists
\* them: the five named escapes, the character itself otherwise.
NamedEscape(c) ==
  CASE c = "n" -> 10 [] c = "t" -> 9 [] c = "r" -> 13 [] c = "\"" -> 34 [] c = "\\" -> 92
    [] OTHER -> ord(c)

\* The literal is a quote, one backslash pair and a quote.
IsOnePair(t) == Len(t) = 4 /\ t[1] = "\"" /\ t[2] = "\\" /\ t[4] = "\"" /\ t[3] \notin HexChars

\* The literal has no closing quote: one character after the opening quote.
IsUnterminated(t) == Len(t) = 2 /\ t[1] = "\""

\* C31. parse_string never raises, on any literal: a one-character escape
\* gives the character the statement lists for it, a \u{...} escape gives
\* its code point or falls back, and a literal without closing quote gives
\* no token instead of an error.
C31_ParseStringNeverRaises ==
  lit.pc \in {"parsed", "raised", "decoded"} =>
    \A k \in 1..Len(lit.toks) :
      /\ lit.toks[k].exc = ""
      /\ IsOnePair(lit.texts[k]) =>
           ~lit.toks[k].none /\ lit.toks[k].value = <<NamedEscape(lit.texts[k][3])>>
      /\ IsUnterminated(lit.texts[k]) => lit.toks[k].none

\* ------------------------------------------------------------------ C32

\* The forms iter_forms yields on a text, with their start offsets: the
\* loop of iter_forms run to the end of the text.
RECURSIVE IterFormsFrom(_)
IterFormsFrom(s) == IF s.i >= Len(s.text) THEN s.out ELSE IterFormsFrom(iter_forms_step(s))
IterFormsOf(t) == IterFormsFrom(iter_forms_init(t))

\* extract_form was called on its own and has returned.
ExtractReturned == scan.pc = "returned" /\ scan.fn = "extract_form"

\* C32. For every form F that iter_forms yields starting at offset s,
\* extract_form(text, s) returns exactly F.
C32_ExtractFormAgreesWithIterForms ==
  ExtractReturned =>
    \A j \in 1..Len(IterFormsOf(scan.text)) :
      IterFormsOf(scan.text)[j].start = scan.start =>
        scan.result = IterFormsOf(scan.text)[j].form

\* extract_form returned a form iter_forms yields, one that starts after the
\* first character of the text and holds a string literal.
C32_Witness ==
  /\ ExtractReturned
  /\ scan.start > 0
  /\ \E j \in 1..Len(IterFormsOf(scan.text)) :
       /\ IterFormsOf(scan.text)[j].start = scan.start
       /\ scan.result = IterFormsOf(scan.text)[j].form
  /\ \E p \in 1..Len(scan.result) : scan.result[p] = "\""

\* ------------------------------------------------------------------ C33

\* The lexical class of every position of a text: "c" inside a line or
\* block comment (the delimiters included), "s" inside a string literal (the
\* quotes included), "t" elsewhere.
RECURSIVE KindTop(_, _), KindStr(_, _, _), KindBlk(_, _, _), KindLine(_, _)
KindTop(t, k) ==
  IF k > Len(t) THEN <<>>
  ELSE IF t[k] = ";" /\ k < Len(t) /\ t[k + 1] = ";" THEN <<"c", "c">> \o KindLine(t, k + 2)
  ELSE IF t[k] = "(" /\ k < Len(t) /\ t[k + 1] = ";" THEN <<"c", "c">> \o KindBlk(t, k + 2, 1)
  ELSE IF t[k] = "\"" THEN <<"s">> \o KindStr(t, k + 1, FALSE)
  ELSE <<"t">> \o KindTop(t, k + 1)
KindLine(t, k) ==
  IF k > Len(t) THEN <<>>
  ELSE IF t[k] = "\n" THEN KindTop(t, k)
  ELSE <<"c">> \o KindLine(t, k + 1)
KindStr(t, k, esc) ==
  IF k > Len(t) THEN <<>>
  ELSE IF ~esc /\ t[k] = "\"" THEN <<"s">> \o KindTop(t, k + 1)
  ELSE <<"s">> \o KindStr(t, k + 1, ~esc /\ t[k] = "\\")
KindBlk(t, k, bd) ==
  IF k > Len(t) THEN <<>>
  ELSE IF t[k] = "(" /\ k < Len(t) /\ t[k + 1] = ";" THEN <<"c", "c">> \o KindBlk(t, k + 2, bd + 1)
  ELSE IF t[k] = ";" /\ k < Len(t) /\ t[k + 1] = ")"
  THEN <<"c", "c">> \o (IF bd = 1 THEN KindTop(t, k + 2) ELSE KindBlk(t, k + 2, bd - 1))
  ELSE <<"c">> \o KindBlk(t, k + 1, bd)

\* The character ends an atom: whitespace or a parenthesis.
EndsAtom(c) == c \in {" ", "\t", "\n", "\r", "(", ")"}

\* Position p is a '(' outside strings and comments whose head atom, the
\* run of characters up to the next whitespace or parenthesis that follows
\* the whitespace and comments after the '(', is exactly `component`.
HeadIsComponent(t, p) ==
  /\ KindTop(t, 1)[p] = "t" /\ t[p] = "("
  /\ \E q \in (p + 1)..(Len(t) - 8) :
       /\ KindTop(t, 1)[q] = "t"
       /\ SubSeq(t, q, q + 8) = <<"c", "o", "m", "p", "o", "n", "e", "n", "t">>
       /\ q + 9 <= Len(t) => EndsAtom(t[q + 9])
       /\ \A r \in (p + 1)..(q - 1) : KindTop(t, 1)[r] = "c" \/ t[r] \in {" ", "\t", "\n", "\r"}

\* The component form of a balanced form: the text from the leftmost '('
\* whose head atom is `component` to the ')' that matches it, NoForm when
\* there is no such '('.
ComponentFormOf(t) ==
  LET ps == {p \in 1..Len(t) : HeadIsComponent(t, p)}
      p0 == CHOOSE p \in ps : \A q \in ps : p <= q
  IN IF ps = {} THEN NoForm ELSE SubSeq(t, p0, RefMatch(RefMask(t), p0))

\* find_component_form was called on a form and has returned.
FindReturned == scan.pc = "returned" /\ scan.fn = "find_component_form"

\* C33. For a balanced form, find_component_form returns the complete
\* balanced text of the leftmost '(' outside strings and comments whose
\* head atom is exactly `component`, the outermost of nested ones, and
\* nothing when there is none; a `(component` inside a string literal or a
\* comment is never selected.
C33_LeftmostComponentForm ==
  FindReturned /\ Balanced(RefMask(scan.text)) =>
    /\ scan.result = ComponentFormOf(scan.text)
    /\ scan.result # NoForm =>
         /\ Balanced(RefMask(scan.result))
         /\ \E p \in 1..Len(scan.text) :
              /\ scan.result = SubSeq(scan.text, p, p + Len(scan.result) - 1)
              /\ KindTop(scan.text, 1)[p] = "t"
              /\ \A q \in 1..(p - 1) : ~HeadIsComponent(scan.text, q)

\* find_component_form returned the inner component form of a form that
\* holds `(component)` in a string literal or a comment before it.
C33_Witness ==
  /\ FindReturned
  /\ scan.result # NoForm
  /\ \E p \in 2..(Len(scan.text) - 10) :
       /\ KindTop(scan.text, 1)[p] \in {"s", "c"}
       /\ SubSeq(scan.text, p, p + 10) = <<"(", "c", "o", "m", "p", "o", "n", "e", "n", "t", ")">>
       /\ \E s \in (p + 1)..(Len(scan.text) - Len(scan.result) + 1) :
            /\ HeadIsComponent(scan.text, s)
            /\ scan.result = SubSeq(scan.text, s, s + Len(scan.result) - 1)

\* ------------------------------------------------------------------ C34

\* The type tags the statement lists.
ListedTypes ==
  {"bool", "u8", "s8", "u16", "s16", "u32", "s32", "u64", "s64", "char", "str", "string"}

\* What precedes `.const` in a head atom that ends in `.const`, "" for a
\* head that does not end in it.
TypeTag(head) ==
  CASE head = "bool.const" -> "bool" [] head = "u32.const" -> "u32"
    [] head = "s64.const" -> "s64" [] head = "char.const" -> "char"
    [] head = "str.const" -> "str" [] head = "string.const" -> "string"
    [] head = "list.const" -> "list" [] head = "f32.const" -> "f32"
    [] OTHER -> ""

\* The literal form decodes, as the statement says it: the head is an atom
\* that ends in `.const`, and either it is list.const and every child
\* decodes, or its tag is listed and the second element is a string literal
\* for char, str and string and an atom for the other tags.
RECURSIVE Decodes(_)
Decodes(n) ==
  /\ n.k = "list"
  /\ Len(n.v) >= 1
  /\ n.v[1].k = "atom"
  /\ TypeTag(n.v[1].v) # ""
  /\ IF n.v[1].v = "list.const" THEN \A j \in 2..Len(n.v) : Decodes(n.v[j])
     ELSE /\ TypeTag(n.v[1].v) \in ListedTypes
          /\ Len(n.v) >= 2
          /\ n.v[2].k = (IF TypeTag(n.v[1].v) \in {"char", "str", "string"} THEN "str"
                         ELSE "atom")

\* The value a literal form that decodes stands for.
RECURSIVE ValueOf(_)
ValueOf(n) ==
  IF n.v[1].v = "list.const"
  THEN [type |-> "list", items |-> [j \in 1..(Len(n.v) - 1) |-> ValueOf(n.v[j + 1])]]
  ELSE [type |-> TypeTag(n.v[1].v), value |-> n.v[2].v]

\* The literal forms of the k-th form of the file: the arguments of its
\* invoke and, for an assert_return, the expected values.
ArgsOf(k) ==
  LET node == parse_form(rf.log[k].form)
      inv == IF node.v[1] = Atom("invoke") THEN node ELSE node.v[2]
  IN SubSeq(inv.v, 3, Len(inv.v))
ExpectedOf(k) ==
  LET node == parse_form(rf.log[k].form)
  IN IF node.v[1] = Atom("invoke") THEN <<>> ELSE SubSeq(node.v, 3, Len(node.v))

\* C34. parse_const decodes a literal form if and only if its head atom
\* ends in `.const` and either it is list.const and every child decodes
\* (the value being the list of the children's values in order) or its tag
\* is a listed scalar type and its second element is a string literal for
\* char, str and string and an atom otherwise; an invoke or assert_return
\* that holds a literal which does not decode records exactly one failure
\* and adds nothing to the RunScript.
C34_ConstDecodesIffListed ==
  \A k \in Forms :
    LeadingAtom(rf.log[k].form) \in {"invoke", "assert_return"} =>
      LET args == ArgsOf(k)
          expected == ExpectedOf(k)
      IN IF (\A j \in 1..Len(args) : Decodes(args[j]))
              /\ (\A j \in 1..Len(expected) : Decodes(expected[j]))
         THEN /\ AddedCommand(k)
              /\ rf.commands[rf.log[k].ncmd].args = [j \in 1..Len(args) |-> ValueOf(args[j])]
              /\ LeadingAtom(rf.log[k].form) = "assert_return" =>
                   rf.commands[rf.log[k].ncmd].expected =
                     [j \in 1..Len(expected) |-> ValueOf(expected[j])]
         ELSE OneFailure(k) /\ AddedNothing(k)

\* A file held a nested list literal that decoded, a list literal with a
\* child that does not decode, and an f32 literal.
C34_Witness ==
  /\ rf.pc = "done"
  /\ Len(rf.log) = 3
  /\ \E k \in Forms :
       /\ AddedCommand(k)
       /\ \E j \in 1..Len(ArgsOf(k)) :
            /\ ValueOf(ArgsOf(k)[j]).type = "list"
            /\ Len(ValueOf(ArgsOf(k)[j]).items) = 1
            /\ ValueOf(ArgsOf(k)[j]).items[1].type = "list"
  /\ \E k \in Forms :
       /\ OneFailure(k) /\ AddedNothing(k)
       /\ \E j \in 1..Len(ArgsOf(k)) :
            ArgsOf(k)[j].k = "list" /\ Len(ArgsOf(k)[j].v) = 3
              /\ ArgsOf(k)[j].v[1] = Atom("list.const")
  /\ \E k \in Forms :
       /\ OneFailure(k) /\ AddedNothing(k)
       /\ ArgsOf(k) = <<List(<<Atom("f32.const"), Atom("1")>>)>>

\* ------------------------------------------------------------------ C35

\* The commands run_file recognises by their leading symbol.
KnownCommands ==
  {"component", "assert_invalid", "assert_malformed", "assert_unlinkable",
   "assert_return", "assert_trap", "invoke"}

\* The form is a `component instance` form, an unrecognised form, or a form
\* whose action is an invoke.
ReachesNoTool(f) ==
  \/ LeadingAtom(f) = "component" /\ SecondAtom(f) = "instance"
  \/ LeadingAtom(f) \notin KnownCommands
  \/ LeadingAtom(f) \in {"invoke", "assert_return"}
  \/ LeadingAtom(f) = "assert_trap" /\ Len(f) >= 4 /\ f[3] = LP /\ f[4] = Atom("invoke")

IsMalformedComponent(f) ==
  /\ LeadingAtom(f) = "assert_malformed"
  /\ Len(f) >= 5 /\ f[3] = LP /\ f[4] = Atom("component")
  /\ f[5] # Atom("instance")

\* The form was counted as passed, and as nothing else.
OnePass(k) ==
  rf.log[k].passed = Before(k).passed + 1 /\ rf.log[k].failed = Before(k).failed

\* C36: an assert_malformed over a nested component form is counted as passed
\* if and only if the compiler rejects the normalized form; when the compiler
\* accepts it, the command is counted as exactly one failure whatever the
\* validator reports.
C36_MalformedPassesIffCompilerRejects ==
  \A k \in Forms :
    IsMalformedComponent(rf.log[k].form) =>
      /\ Len(ToolsOf(k)) >= 1 /\ ToolsOf(k)[1] = "compile"
      /\ OnePass(k) <=> ~rf.log[k].compiled
      /\ rf.log[k].compiled => OneFailure(k)
      /\ AddedNothing(k)

\* A file of three assert_malformed forms: the compiler rejected the first,
\* which passed; it accepted the second, the validator reported a parse
\* error, and the form failed; it accepted the third, the validator reported
\* success, and the form failed.
C36_Witness ==
  /\ Len(rf.log) = 3
  /\ \A k \in 1..3 : IsMalformedComponent(rf.log[k].form)
  /\ ~rf.log[1].compiled /\ OnePass(1)
  /\ rf.log[2].compiled /\ rf.log[2].vout = Validator.ParseError /\ OneFailure(2)
  /\ rf.log[3].compiled /\ rf.log[3].vout = Validator.Ok /\ OneFailure(3)

\* ------------------------------------------------------------------ C37

ParseReturned == scan.pc = "returned" /\ scan.fn = "parse_form"

\* C37: scanner and parser agree on form boundaries: for every form F yielded
\* by iter_forms, parse_form(F) returns a list and the parser's matching ')'
\* for the opening '(' is the last character of F (the parser consumes all
\* of F).
C37_ParserConsumesWholeForm ==
  ParseReturned =>
    /\ scan.result.node.k = "list"
    /\ scan.result.closed
    /\ scan.result.i = Len(scan.text)

\* ------------------------------------------------------------------ C38

\* The compile attempts and module-binary writes among the first n calls:
\* each takes the next scratch index.
RECURSIVE AttemptsIn(_)
AttemptsIn(n) ==
  IF n = 0 THEN 0
  ELSE AttemptsIn(n - 1) + (IF rf.calls[n].tool \in {"compile", "run"} THEN 1 ELSE 0)

\* The file the compiler wrote for form k.
ArtifactOf(k) == "component_" \o ToString(AttemptsIn(Before(k).ncalls)) \o ".wasm"

PathCommands == {p \in DOMAIN rf.commands : "path" \in DOMAIN rf.commands[p]}

\* C38: every command in the RunScript that carries an artifact path
\* (component, component_definition, assert_unlinkable, including the
\* assert_unlinkable produced for an assert_trap that wraps a component form)
\* refers to an artifact whose compile succeeded and whose validation was
\* classified validated-ok earlier in the same file.
C38_PathCommandsAreValidatedArtifacts ==
  \A p \in PathCommands :
    /\ rf.commands[p].type \in {"component", "component_definition", "assert_unlinkable"}
    /\ \E k \in Forms :
         /\ Before(k).ncmd < p /\ p <= rf.log[k].ncmd
         /\ ToolsOf(k) = <<"compile", "validate">>
         /\ rf.log[k].compiled
         /\ rf.log[k].vout = Validator.Ok
         /\ rf.commands[p].path = ArtifactOf(k)

\* A file of three forms, each of which added a command with a path: a
\* definition, an assert_unlinkable and an assert_trap around a component;
\* the last became an assert_unlinkable command.
C38_Witness ==
  /\ Len(rf.log) = 3 /\ Len(rf.commands) = 3
  /\ PathCommands = {1, 2, 3}
  /\ rf.commands[1].type = "component_definition"
  /\ LeadingAtom(rf.log[2].form) = "assert_unlinkable"
  /\ LeadingAtom(rf.log[3].form) = "assert_trap"
  /\ rf.commands[3].type = "assert_unlinkable"

\* ------------------------------------------------------------------ C39

\* C39: within one file the scratch index strictly increases with every
\* compile attempt and every module-binary write, so no two attempts write
\* the same scratch path, and the artifact paths recorded in the RunScript
\* are pairwise distinct and never overwritten before the batch executor
\* runs: the index is the number of attempts made so far, and every recorded
\* path carries an index below it.
C39_ScratchIndexNeverReused ==
  /\ rf.comp_idx = AttemptsIn(Len(rf.calls))
  /\ \A p, q \in PathCommands :
       p # q => rf.commands[p].path # rf.commands[q].path
  /\ \A p \in PathCommands :
       \E n \in 0..(rf.comp_idx - 1) :
         rf.commands[p].path = "component_" \o ToString(n) \o ".wasm"

\* A file of three forms: a binary module written under index 0, then two
\* forms compiled under the indices 1 and 2 whose commands name
\* component_1.wasm and component_2.wasm.
C39_Witness ==
  /\ Len(rf.log) = 3 /\ rf.comp_idx = 3
  /\ ToolsOf(1) = <<"run">>
  /\ Len(rf.commands) = 2 /\ PathCommands = {1, 2}
  /\ rf.commands[1].path = "component_1.wasm"
  /\ rf.commands[2].path = "component_2.wasm"

====
